---------------------------- MODULE Spec2Model ----------------------------
(***************************************************************************)
(* Hybrid retrieval (src/src/core/retriever.py) and incremental knowledge *)
(* graph construction (src/src/core/graph_store.py).                      *)
(*                                                                         *)
(* Numbers.  Python floats are modelled by exact integers:                 *)
(*   - a raw score is in hundredths (95 is 0.95);                          *)
(*   - the rerank factors are integers over a fixed denominator:           *)
(*     source_weight in tenths, length_bonus in twentieths, keyword_bonus  *)
(*     in tenths, semantic_bonus in fiftieths; a reranked score is the     *)
(*     integer product, in units of 1/(100*10*20*10*50).                  *)
(* Texts.  A text is a record [kind, a, b, c] of short ASCII strings; the  *)
(* Chinese literals of the source are written as ASCII glosses, each       *)
(* glossed where it is introduced.                                         *)
(***************************************************************************)
EXTENDS Integers, Sequences, FiniteSets, TLC

(***************************************************************************)
(* Bounds of the model.                                                    *)
(***************************************************************************)
MaxQueryLen == 2
MaxTopK == 5
HashSpace == 262144
MaxDedupLen == 3
\* build_graph_from_chunks is called at most this many times in a behaviour.
MaxBuilds == 2
MaxEmbedCalls == 2
FloatBits == 5
UnitExp == 8
MaxShift == 12
MaxQueries == 2
MaxIngests == 1
MaxRerankLen == 2
MaxTextLen == 2

(***************************************************************************)
(* Generic helpers.                                                        *)
(***************************************************************************)
Min(a, b) == IF a <= b THEN a ELSE b
Max(a, b) == IF a >= b THEN a ELSE b
Range(s) == {s[i] : i \in 1..Len(s)}

RECURSIVE Concat(_)
Concat(ss) == IF ss = <<>> THEN <<>> ELSE Head(ss) \o Concat(Tail(ss))

\* Python's s[:k]: the first k items for k >= 0, all but the last -k for k < 0.
PySlice(s, k) ==
    IF k >= 0 THEN SubSeq(s, 1, Min(k, Len(s)))
    ELSE SubSeq(s, 1, Max(Len(s) + k, 0))

\* Python's a // b for b > 0 (floor division).
PyFloorDiv(a, b) == IF a >= 0 THEN a \div b ELSE -((-a + b - 1) \div b)

(***************************************************************************)
(* Texts.  A text is [kind, a, b, c]:                                      *)
(*   "doc"  a stored chunk's payload content, named by a;                  *)
(*   "kw"   FulltextRetriever's sentence about keyword a;                  *)
(*   "rel"  GraphRetriever's sentence "entity a is related to b by c";     *)
(*   "cut"  the first 500 characters of the "doc" text named by a.         *)
(***************************************************************************)
\* The whitespace-free words queries are built from: "rag" is a keyword of
\* GraphRetriever's table, "foo" is none.
Words == {"rag", "foo"}

\* str.lower() of a word.
Lower(w) ==
    CASE w = "RAG" -> "rag"
      [] w = "AI" -> "ai"
      [] OTHER -> w

Text(kind, a, b, c) == [kind |-> kind, a |-> a, b |-> b, c |-> c]
DocText(name) == Text("doc", name, "", "")

\* len() of the strings that occur inside generated sentences.
StrLen(s) ==
    CASE s = "rag" -> 3
      [] s = "kg" -> 4
      [] s = "foo" -> 3
      [] s = "RAG-jishu" -> 5
      [] s = "zhishitupu" -> 4
      [] s = "rengongzhineng" -> 4
      [] s = "xiangliangjiansuo" -> 4
      [] s = "jiqixuexi" -> 4
      [] s = "shenduxuexi" -> 4
      [] s = "tech" -> 2
      [] s = "USES" -> 4
      [] s = "RELATES_TO" -> 10
      [] s = "vector_search" -> 13
      [] s = "knowledge_graph" -> 15
      [] s = "rag_tech" -> 8
      [] s = "RAG" -> 3
      [] OTHER -> 6

\* The stored chunk contents of the model: length and lower-cased words.
\* d5 is a different content whose hash equals d1's.
DocNames == {"d1", "d2", "d3", "d4", "d5", "d6"}
DocLen(name) ==
    CASE name = "d1" -> 60
      [] name = "d2" -> 10
      [] name = "d3" -> 600
      [] name = "d4" -> 12
      [] OTHER -> 70
\* content.split(): the tokens of a document's text that matter.
DocTokens(name) ==
    CASE name = "d1" -> {"RAG"}
      [] name = "d2" -> {"foo"}
      [] name = "d3" -> {"rag", "RAG", "foo"}
      [] OTHER -> {}
\* set(content.lower().split())
DocWords(name) == {Lower(w) : w \in DocTokens(name)}

\* len(content).  The fulltext sentence has 15 characters around the keyword
\* (retriever.py:196), the graph sentence 7 around its three fields
\* (retriever.py:126).
TextLen(t) ==
    CASE t.kind = "doc" -> DocLen(t.a)
      [] t.kind = "cut" -> Min(DocLen(t.a), 500)
      [] t.kind = "kw" -> 15 + StrLen(t.a)
      [] t.kind = "rel" -> 7 + StrLen(t.a) + StrLen(t.b) + StrLen(t.c)
      [] OTHER -> 0

\* set(content.lower().split()) restricted to Words.  A generated sentence
\* holds no whitespace, so it is one token, which is no member of Words.
TextWords(t) == IF t.kind = "doc" THEN DocWords(t.a) ELSE {}

\* content[:500]
Truncate500(t) ==
    IF t.kind = "doc" /\ DocLen(t.a) > 500 THEN Text("cut", t.a, "", "") ELSE t

\* A number per string; every code is below 32.
StrCode(s) ==
    CASE s = "" -> 0
      [] s = "rag" -> 1
      [] s = "kg" -> 2
      [] s = "foo" -> 3
      [] s = "RAG-jishu" -> 4
      [] s = "zhishitupu" -> 5
      [] s = "rengongzhineng" -> 6
      [] s = "xiangliangjiansuo" -> 19
      [] s = "jiqixuexi" -> 20
      [] s = "shenduxuexi" -> 21
      [] s = "tech" -> 7
      [] s = "USES" -> 8
      [] s = "RELATES_TO" -> 9
      [] s = "vector_search" -> 10
      [] s = "knowledge_graph" -> 11
      [] s = "rag_tech" -> 12
      [] s = "d1" -> 13
      [] s = "d2" -> 14
      [] s = "d3" -> 15
      [] s = "d4" -> 16
      [] s = "d6" -> 17
      [] s = "RAG" -> 18
      [] s = "doc" -> 0
      [] s = "kw" -> 1
      [] s = "rel" -> 2
      [] s = "cut" -> 3
      [] s = "query" -> 4
      [] OTHER -> 31

\* An injective numbering of the texts other than d5.
TextCode(t) ==
    StrCode(t.kind) + 8 * (StrCode(t.a) + 32 * (StrCode(t.b) + 32 * StrCode(t.c)))

\* hash(str): a function of the text into a bounded range.  Equal texts have
\* equal hashes; different texts may collide, as d1 and d5 do.
PyHash(t) ==
    IF t = DocText("d5") THEN (TextCode(DocText("d1")) + HashSpace) % HashSpace
    ELSE TextCode(t) % HashSpace

(***************************************************************************)
(* Embeddings and cosine similarity.  Vectors are pairs of integers whose  *)
(* norm is an integer, so that 25 * cosine is an exact integer.            *)
(***************************************************************************)
VecTable == << <<1, 0>>, <<0, 1>>, <<3, 4>>, <<4, 3>>, <<-1, 0>>, <<0, 0>> >>

Dot(v, w) == v[1] * w[1] + v[2] * w[2]

\* np.linalg.norm on the vectors of VecTable.
Norm(v) ==
    LET n2 == Dot(v, v)
    IN  CHOOSE n \in 0..5 : n * n = n2

\* _cosine_similarity, in 25ths.
CosineSimilarity25(v1, v2) ==
    LET dot_product == Dot(v1, v2)
        norm1 == Norm(v1)
        norm2 == Norm(v2)
    IN  IF norm1 = 0 \/ norm2 = 0 THEN 0
        ELSE Max(-25, Min(25, (25 * dot_product) \div (norm1 * norm2)))

\* MockEmbeddingProvider.embed_text: the vector drawn after seeding the
\* generator with hash(text) % 2**32; the generator is a table from seeds.
EmbedText(t) == VecTable[(PyHash(t) % Len(VecTable)) + 1]

(***************************************************************************)
(* Binary floating point as numpy's float64 has it, with FloatBits         *)
(* significant bits in place of 53.  A finite value is a whole number of   *)
(* quanta, the quantum being the smallest subnormal, 2^-UnitExp: every     *)
(* whole number below 2^FloatBits is a value (the subnormals and the       *)
(* first binade), above them the values are m * 2^s with m below           *)
(* 2^FloatBits and s up to MaxShift.  Results are rounded to the nearest   *)
(* value, ties to the even one; beyond MaxFinite they are infinite.        *)
(***************************************************************************)
One == 2^UnitExp
MaxFinite == (2^FloatBits - 1) * 2^MaxShift

Fin(n) == [kind |-> "fin", n |-> n]
Inf(sign) == [kind |-> "inf", n |-> sign]
NaN == [kind |-> "nan", n |-> 0]

Abs(n) == IF n < 0 THEN -n ELSE n
Sign(n) == IF n < 0 THEN -1 ELSE IF n = 0 THEN 0 ELSE 1

RECURSIVE BitLen(_)
BitLen(n) == IF n = 0 THEN 0 ELSE 1 + BitLen(n \div 2)

\* Where r/den lies in [0, 1): 0 at zero, 1 below one half, 2 at one
\* half, 3 above it.
FracOf(r, den) ==
    IF r = 0 THEN 0
    ELSE IF 2 * r < den THEN 1
    ELSE IF 2 * r = den THEN 2
    ELSE 3

\* The magnitude q quanta plus a fraction (as FracOf gives it), rounded to
\* the nearest value.
RoundMag(q, frac) ==
    LET b == BitLen(q)
        ulp == IF b <= FloatBits THEN 1 ELSE 2^(b - FloatBits)
        rem == q % ulp
        low == q - rem
        at == IF ulp = 1 THEN frac
              ELSE IF 2 * rem < ulp
                   THEN (IF rem = 0 /\ frac = 0 THEN 0 ELSE 1)
              ELSE IF 2 * rem = ulp
                   THEN (IF frac = 0 THEN 2 ELSE 3)
              ELSE 3
    IN  CASE at \in {0, 1} -> low
          [] at = 3 -> low + ulp
          [] OTHER -> IF (low \div ulp) % 2 = 0 THEN low ELSE low + ulp

FRound(sign, q, frac) ==
    LET m == RoundMag(q, frac)
    IN  IF m > MaxFinite THEN Inf(sign) ELSE Fin(sign * m)

FMul(a, b) ==
    IF a.kind = "nan" \/ b.kind = "nan" THEN NaN
    ELSE IF a.kind = "inf" \/ b.kind = "inf"
         THEN (IF a.n = 0 \/ b.n = 0 THEN NaN ELSE Inf(Sign(a.n) * Sign(b.n)))
    ELSE LET p == Abs(a.n) * Abs(b.n)
         IN  FRound(Sign(a.n) * Sign(b.n), p \div One, FracOf(p % One, One))

FAdd(a, b) ==
    IF a.kind = "nan" \/ b.kind = "nan" THEN NaN
    ELSE IF a.kind = "inf" /\ b.kind = "inf"
         THEN (IF a.n = b.n THEN a ELSE NaN)
    ELSE IF a.kind = "inf" THEN a
    ELSE IF b.kind = "inf" THEN b
    ELSE FRound(Sign(a.n + b.n), Abs(a.n + b.n), 0)

FDiv(a, b) ==
    IF a.kind = "nan" \/ b.kind = "nan" THEN NaN
    ELSE IF a.kind = "inf"
         THEN (IF b.kind = "inf" THEN NaN
               ELSE Inf(a.n * (IF b.n < 0 THEN -1 ELSE 1)))
    ELSE IF b.kind = "inf" THEN Fin(0)
    ELSE IF b.n = 0
         THEN (IF a.n = 0 THEN NaN ELSE Inf(Sign(a.n)))
    ELSE LET num == Abs(a.n) * One
             den == Abs(b.n)
         IN  FRound(Sign(a.n) * Sign(b.n), num \div den, FracOf(num % den, den))

\* The whole part of the square root of n, sought between lo and hi.
RECURSIVE ISqrtIn(_, _, _)
ISqrtIn(n, lo, hi) ==
    IF lo >= hi THEN lo
    ELSE LET mid == (lo + hi + 1) \div 2
         IN  IF mid * mid <= n THEN ISqrtIn(n, mid, hi)
             ELSE ISqrtIn(n, lo, mid - 1)

FSqrt(a) ==
    IF a.kind = "nan" THEN NaN
    ELSE IF a.kind = "inf" THEN (IF a.n > 0 THEN a ELSE NaN)
    ELSE IF a.n < 0 THEN NaN
    ELSE LET n == a.n * One
             r == ISqrtIn(n, 0, 46340)
             frac == IF r * r = n THEN 0
                     ELSE IF n <= r * r + r THEN 1
                     ELSE 3
         IN  FRound(1, r, frac)

\* a < b; false when either is not a number.
FLess(a, b) ==
    LET key(x) == IF x.kind = "inf" THEN x.n * (MaxFinite + 1) ELSE x.n
    IN  a.kind /= "nan" /\ b.kind /= "nan" /\ key(a) < key(b)

\* Python's min(a, b) and max(a, b) of two arguments: the first one unless
\* the second compares smaller (larger).
PyMin(a, b) == IF FLess(b, a) THEN b ELSE a
PyMax(a, b) == IF FLess(a, b) THEN b ELSE a

\* np.dot of two one-dimensional arrays of the same length; vectors are
\* sequences of finite values, in quanta.
\* The products are summed from the first component on.
RECURSIVE FDotFrom(_, _, _, _)
FDotFrom(v1, v2, i, acc) ==
    IF i > Len(v1) THEN acc
    ELSE FDotFrom(v1, v2, i + 1, FAdd(acc, FMul(Fin(v1[i]), Fin(v2[i]))))

FDot(v1, v2) == FDotFrom(v1, v2, 1, Fin(0))

\* np.linalg.norm of a one-dimensional array: sqrt(dot(x, x)).
FNorm(v) == FSqrt(FDot(v, v))

\* The same as CosineSimilarity without the test for a zero norm.
CosineSimilarityNoZeroCheck(vec1, vec2) ==
    IF Len(vec1) /= Len(vec2) THEN Fin(0)
    ELSE LET similarity == FDiv(FDot(vec1, vec2), FMul(FNorm(vec1), FNorm(vec2)))
         IN  PyMax(Fin(-One), PyMin(Fin(One), similarity))

\* HybridRetriever._cosine_similarity.  np.dot raises for arrays of
\* different lengths, and the bare except returns 0.0.
CosineSimilarity(vec1, vec2) ==
    IF Len(vec1) /= Len(vec2) THEN Fin(0)
    ELSE LET dot_product == FDot(vec1, vec2)
             norm1 == FNorm(vec1)
             norm2 == FNorm(vec2)
         IN  IF norm1 = Fin(0) \/ norm2 = Fin(0) THEN Fin(0)
             ELSE LET similarity == FDiv(dot_product, FMul(norm1, norm2))
                  IN  PyMax(Fin(-One), PyMin(Fin(One), similarity))

(***************************************************************************)
(* Retrieval results.                                                      *)
(***************************************************************************)
NoFactors == [source_weight |-> 0, length_bonus |-> 0,
              keyword_bonus |-> 0, semantic_bonus |-> 0]

\* RetrievalResult; metadata holds original_score and rerank_factors once
\* the reranker has written them (reranked), and the vector hit's id.
RetrievalResult(content, score, source, hit) ==
    [content |-> content, score |-> score, source |-> source, hit |-> hit,
     reranked |-> FALSE, original_score |-> 0, rerank_factors |-> NoFactors]

(***************************************************************************)
(* VectorRetriever.                                                        *)
(***************************************************************************)
Hit(id, score, name) == [id |-> id, score |-> score, content |-> DocText(name)]

\* QdrantVectorStore.search_vectors without filters: the best `limit` hits
\* of the index, best first; a failing search is caught and gives [].
\* The index answers a limit below 1 with no hit.
SearchVectors(index, limit, ok) ==
    IF ~ok \/ limit < 1 THEN <<>>
    ELSE SubSeq(index, 1, Min(limit, Len(index)))

\* VectorRetriever.retrieve: one result per hit; [] on any exception.
VectorRetrieve(index, limit, ok) ==
    LET vector_results == SearchVectors(index, limit, ok)
    IN  [i \in 1..Len(vector_results) |->
            RetrievalResult(vector_results[i].content, vector_results[i].score,
                            "vector", vector_results[i].id)]

(***************************************************************************)
(* GraphRetriever.                                                         *)
(***************************************************************************)
\* key in word as a substring test, both lower case.
KeyInWord(key, w) ==
    CASE w = "rag" -> key = "rag"
      [] w = "storage" -> key = "rag"
      [] w = "ai" -> key = "ai"
      [] w = "said" -> key = "ai"
      [] w = "jiansuo" -> key = "jiansuo"
      [] w = "zhishitupu" -> key \in {"zhishitupu", "tupu"}
      [] w = "tupu" -> key = "tupu"
      [] w = "xiangliang" -> key = "xiangliang"
      [] w = "xiangliangjiansuo" ->
            key \in {"xiangliang", "jiansuo", "xiangliangjiansuo"}
      [] w = "jiqixuexi" -> key = "jiqixuexi"
      [] w = "shenduxuexi" -> key = "shenduxuexi"
      [] w = "qianru" -> key = "qianru"
      [] w = "rengongzhineng" -> key = "rengongzhineng"
      [] OTHER -> FALSE

\* entity_keywords, in dict order.  Chinese words are written in pinyin:
\* xiangliangjiansuo (vector search), zhishitupu (knowledge graph),
\* rengongzhineng (artificial intelligence), jiqixuexi (machine learning),
\* shenduxuexi (deep learning), "RAG-jishu" (RAG technology), "tech" for
\* jishu (technology).
EntityKeywords == <<
    [keyword |-> "rag", id |-> "rag_tech", name |-> "RAG-jishu"],
    [keyword |-> "xiangliangjiansuo", id |-> "vector_search",
     name |-> "xiangliangjiansuo"],
    [keyword |-> "zhishitupu", id |-> "knowledge_graph", name |-> "zhishitupu"],
    [keyword |-> "rengongzhineng", id |-> "ai_system", name |-> "rengongzhineng"],
    [keyword |-> "jiqixuexi", id |-> "machine_learning", name |-> "jiqixuexi"],
    [keyword |-> "shenduxuexi", id |-> "deep_learning", name |-> "shenduxuexi"] >>

DefaultEntities == <<
    [keyword |-> "", id |-> "general_ai", name |-> "rengongzhineng"],
    [keyword |-> "", id |-> "general_tech", name |-> "tech"] >>

\* keyword.lower() in query_lower: a keyword holds no whitespace, so it
\* occurs in the query iff it occurs in one of its words.
KeywordInQuery(keyword, q) ==
    \E i \in 1..Len(q) : KeyInWord(keyword, Lower(q[i]))

\* GraphRetriever._extract_entities
ExtractEntities(q) ==
    LET entities == SelectSeq(EntityKeywords,
                              LAMBDA e : KeywordInQuery(e.keyword, q))
    IN  IF entities = <<>> THEN DefaultEntities ELSE entities

\* A property map without keys.
NoProps == [k \in {} |-> 0]

\* A stored relation, as query_relations reports it.
Edge(from, type, to, properties) ==
    [from_entity |-> from, type |-> type, to_entity |-> to,
     properties |-> properties]

\* GraphStore.find_related_entities: the outgoing relations of entity_id,
\* in store order, weight 0.5 when the relation has none; [] when the
\* store's query fails.
FindRelatedEntities(edgeSeq, entity_id, ok) ==
    IF ~ok THEN <<>>
    ELSE LET relations == SelectSeq(edgeSeq,
                                    LAMBDA r : r.from_entity = entity_id)
         IN  [i \in 1..Len(relations) |->
                [entity_id |-> relations[i].to_entity,
                 relation_type |-> relations[i].type,
                 weight |-> IF "weight" \in DOMAIN relations[i].properties
                            THEN relations[i].properties.weight
                            ELSE 50]]

\* GraphRetriever.retrieve without the final results[:top_k].
GraphRetrieveUncut(edgeSeq, q, limit, okOf) ==
    LET entities == ExtractEntities(q)
    IN  Concat([i \in 1..Len(entities) |->
            LET related == PySlice(FindRelatedEntities(edgeSeq, entities[i].id, okOf[i]), limit)
            IN  [j \in 1..Len(related) |->
                    RetrievalResult(
                        Text("rel", entities[i].name, related[j].entity_id,
                             related[j].relation_type),
                        related[j].weight, "graph", "")]])

\* GraphRetriever.retrieve; okOf[i] tells whether the store answers the
\* fetch for the i-th extracted entity.
GraphRetrieve(edgeSeq, q, limit, okOf) ==
    LET entities == ExtractEntities(q)
        perEntity(i) ==
            LET related == PySlice(FindRelatedEntities(edgeSeq, entities[i].id, okOf[i]), limit)
            IN  [j \in 1..Len(related) |->
                    RetrievalResult(
                        Text("rel", entities[i].name, related[j].entity_id,
                             related[j].relation_type),
                        related[j].weight, "graph", "")]
        results == Concat([i \in 1..Len(entities) |-> perEntity(i)])
    IN  PySlice(results, limit)

(***************************************************************************)
(* FulltextRetriever.                                                      *)
(***************************************************************************)
\* FulltextRetriever.retrieve: one synthetic result per word of the query,
\* for the words of keywords[:top_k]; [] on any exception.
FulltextRetrieve(q, limit, ok) ==
    IF ~ok THEN <<>>
    ELSE LET keywords == PySlice(q, limit)
         IN  [i \in 1..Len(keywords) |->
                RetrievalResult(Text("kw", keywords[i], "", ""),
                                80 - (i - 1) * 10, "fulltext", "")]

(***************************************************************************)
(* HybridRetriever: fusion and reranking.                                  *)
(***************************************************************************)
\* HybridRetriever._deduplicate_results: keep a result iff the hash of its
\* content has not been seen.
RECURSIVE DedupFrom(_, _)
DedupFrom(results, seen_content) ==
    IF results = <<>> THEN <<>>
    ELSE LET content_hash == PyHash(Head(results).content)
         IN  IF content_hash \notin seen_content
             THEN <<Head(results)>> \o DedupFrom(Tail(results), seen_content \cup {content_hash})
             ELSE DedupFrom(Tail(results), seen_content)

DeduplicateResults(results) == DedupFrom(results, {})

\* The four factors of _rerank_results (retriever.py:348-384).
SourceWeight(source) ==
    CASE source = "vector" -> 10
      [] source = "graph" -> 9
      [] source = "fulltext" -> 8
      [] OTHER -> 10

LengthBonus(content_length) ==
    IF 50 <= content_length /\ content_length <= 500 THEN 22
    ELSE IF content_length > 500 THEN 21
    ELSE 18

\* The same without lower() on the query.
KeywordBonusCaseSensitive(q, content) ==
    10 + Cardinality(Range(q) \cap TextWords(content))

KeywordBonus(q, content) ==
    LET query_words == {Lower(w) : w \in Range(q)}
        content_words == TextWords(content)
    IN  10 + Cardinality(query_words \cap content_words)

\* The text of the query: its words joined by blanks.
QueryText(q) ==
    Text("query", IF Len(q) >= 1 THEN q[1] ELSE "",
                  IF Len(q) >= 2 THEN q[2] ELSE "",
                  IF Len(q) >= 3 THEN q[3] ELSE "")

\* response.data[0].embedding: what the service answers for a text with
\* the configured model.
ServiceEmbedding(t) == VecTable[((TextCode(t) + 1) % Len(VecTable)) + 1]

\* OpenAIEmbeddingProvider.embed_text: the service's vector, or on any
\* exception np.random.normal(0, 1, dimension) from the global generator,
\* which nothing has seeded for this call: drawn is what it yields.
OpenAIEmbedText(t, up, drawn) ==
    IF up THEN ServiceEmbedding(t) ELSE drawn

\* One embed_text call of the rerank: whether the embedding service
\* answered it and, when it did not, the vector the provider drew.
ServiceAnswered == [up |-> TRUE, drawn |-> <<0, 0>>]

\* The embedding side of one _rerank_results call: whether
\* get_embedding_provider() returns, the provider it returns, and the
\* embed_text calls for the query and for the i-th result's content.
MockEmbedding(providerOk) ==
    [ok |-> providerOk, provider |-> "mock", query |-> ServiceAnswered,
     contents |-> <<>>]

\* embedding_provider.embed_text(text) with the provider of the call.
ProviderEmbedText(emb, t, call) ==
    IF emb.provider = "mock" THEN EmbedText(t)
    ELSE OpenAIEmbedText(t, call.up, call.drawn)

\* query_embedding (retriever.py:342).
QueryEmbedding(q, emb) == ProviderEmbedText(emb, QueryText(q), emb.query)

\* semantic_bonus of the i-th result (retriever.py:375-384), in fiftieths.
\* Neither provider's embed_text raises and _cosine_similarity returns 0.0
\* on its own errors, so the except branch has no caller here.
SemanticBonus(q, content, emb, i) ==
    IF TextLen(content) > 20
    THEN 50 + CosineSimilarity25(
                  QueryEmbedding(q, emb),
                  ProviderEmbedText(emb, Truncate500(content),
                                    IF emb.provider = "mock" THEN ServiceAnswered
                                    ELSE emb.contents[i]))
    ELSE 50

\* The body of the for loop of _rerank_results for one result.
Rescore(q, result, emb, i) ==
    LET factors == [source_weight |-> SourceWeight(result.source),
                    length_bonus |-> LengthBonus(TextLen(result.content)),
                    keyword_bonus |-> KeywordBonus(q, result.content),
                    semantic_bonus |-> SemanticBonus(q, result.content, emb, i)]
    IN  [result EXCEPT
            !.original_score = result.score,
            !.rerank_factors = factors,
            !.reranked = TRUE,
            !.score = result.score * factors.source_weight * factors.length_bonus
                      * factors.keyword_bonus * factors.semantic_bonus]

\* sorted(results, key=score, reverse=True): a stable sort, so equal scores
\* keep their order.  An insertion sort that puts each result behind every
\* result already placed whose score is at least its own.
InsertDescTiesFirst(sorted, r) ==
    LET k == Cardinality({i \in 1..Len(sorted) : sorted[i].score > r.score})
    IN  SubSeq(sorted, 1, k) \o <<r>> \o SubSeq(sorted, k + 1, Len(sorted))

InsertDesc(sorted, r) ==
    LET k == Cardinality({i \in 1..Len(sorted) : sorted[i].score >= r.score})
    IN  SubSeq(sorted, 1, k) \o <<r>> \o SubSeq(sorted, k + 1, Len(sorted))

RECURSIVE SortFrom(_, _)
SortFrom(results, sorted) ==
    IF results = <<>> THEN sorted
    ELSE SortFrom(Tail(results), InsertDesc(sorted, Head(results)))

SortedByScoreDesc(results) == SortFrom(results, <<>>)

\* HybridRetriever._rerank_results.  When get_embedding_provider() raises,
\* the except branch returns the results as they were passed.
RerankResults(q, results, emb) ==
    IF ~emb.ok THEN results
    ELSE SortedByScoreDesc(
             [i \in 1..Len(results) |-> Rescore(q, results[i], emb, i)])

(***************************************************************************)
(* The graph store (Neo4jGraphStore): nodes and relations in store order.  *)
(* Weights and confidences are in hundredths.                              *)
(***************************************************************************)
\* A node: its label, its id and its properties.
Node(type, id, properties) ==
    [type |-> type, id |-> id, properties |-> properties]

\* Cypher "SET x += $properties": the given keys are written, the others
\* are kept.
SetProps(old, new) ==
    [k \in DOMAIN old \cup DOMAIN new |->
        IF k \in DOMAIN new THEN new[k] ELSE old[k]]

\* The same with CREATE in place of MERGE.
MergeEntityAlwaysCreate(nodeSeq, entity) == Append(nodeSeq, entity)

\* Neo4jGraphStore.add_entity: MERGE (e:type {id}) SET e += properties.
\* Every node of that label and id is matched; one is created when there
\* is none.
MergeEntity(nodeSeq, entity) ==
    IF \E i \in 1..Len(nodeSeq) :
          nodeSeq[i].type = entity.type /\ nodeSeq[i].id = entity.id
    THEN [i \in 1..Len(nodeSeq) |->
            IF nodeSeq[i].type = entity.type /\ nodeSeq[i].id = entity.id
            THEN [nodeSeq[i] EXCEPT
                    !.properties = SetProps(@, entity.properties)]
            ELSE nodeSeq[i]]
    ELSE Append(nodeSeq, entity)

\* The same with CREATE in place of MERGE.
MergeRelationAlwaysCreate(nodeSeq, edgeSeq, relation) ==
    IF /\ \E i \in 1..Len(nodeSeq) : nodeSeq[i].id = relation.from_entity
       /\ \E i \in 1..Len(nodeSeq) : nodeSeq[i].id = relation.to_entity
    THEN Append(edgeSeq, relation)
    ELSE edgeSeq

\* Neo4jGraphStore.add_relation: MATCH (a {id: from}) MATCH (b {id: to})
\* MERGE (a)-[r:TYPE]->(b) SET r += properties. Nothing is written when an
\* endpoint is missing; the relation of that type between the two nodes
\* is matched, or created when there is none.
MergeRelation(nodeSeq, edgeSeq, relation) ==
    IF ~ (/\ \E i \in 1..Len(nodeSeq) : nodeSeq[i].id = relation.from_entity
          /\ \E i \in 1..Len(nodeSeq) : nodeSeq[i].id = relation.to_entity)
    THEN edgeSeq
    ELSE LET same(r) == /\ r.from_entity = relation.from_entity
                        /\ r.type = relation.type
                        /\ r.to_entity = relation.to_entity
         IN  IF \E i \in 1..Len(edgeSeq) : same(edgeSeq[i])
             THEN [i \in 1..Len(edgeSeq) |->
                     IF same(edgeSeq[i])
                     THEN [edgeSeq[i] EXCEPT
                             !.properties = SetProps(@, relation.properties)]
                     ELSE edgeSeq[i]]
             ELSE Append(edgeSeq, relation)

\* The Entity nodes a sequence of relations stands on, in order of first
\* appearance.
RECURSIVE EndpointNodes(_)
EndpointNodes(edgeSeq) ==
    IF edgeSeq = <<>> THEN <<>>
    ELSE LET before == EndpointNodes(SubSeq(edgeSeq, 1, Len(edgeSeq) - 1))
             last == edgeSeq[Len(edgeSeq)]
             a == Node("Entity", last.from_entity, NoProps)
             b == Node("Entity", last.to_entity, NoProps)
         IN  MergeEntity(MergeEntity(before, a), b)

(***************************************************************************)
(* GraphStore.build_graph_from_chunks: the entities and relations of one   *)
(* chunk. Chunk contents are sequences of words. The Chinese strings of    *)
(* the source are written in pinyin: jiansuo, zhishitupu, tupu,            *)
(* xiangliang, qianru, rengongzhineng are the keywords of lines 628-635,   *)
(* RAG-jishu, zhishitupu, xiangliangjiansuo, rengongzhineng the topics,    *)
(* wendang the default title prefix, jishugainian the category.            *)
(***************************************************************************)
\* A DocumentChunk; metadata holds the keys that are present.
Chunk(document_id, chunk_index, content, metadata) ==
    [document_id |-> document_id, chunk_index |-> chunk_index,
     content |-> content, metadata |-> metadata]

\* len() of a word.
WordLen(w) ==
    CASE w = "RAG" -> 3 [] w = "rag" -> 3 [] w = "AI" -> 2 [] w = "ai" -> 2
      [] w = "storage" -> 7 [] w = "said" -> 4 [] w = "foo" -> 3
      [] w = "zhishitupu" -> 4 [] w = "tupu" -> 2 [] w = "jiansuo" -> 2
      [] w = "xiangliang" -> 2 [] w = "qianru" -> 2
      [] w = "rengongzhineng" -> 4
      [] w = "lorem" -> 120
      [] OTHER -> 5

\* len(chunk.content): the words and the spaces between them.
RECURSIVE ContentLen(_)
ContentLen(content) ==
    IF content = <<>> THEN 0
    ELSE IF Len(content) = 1 THEN WordLen(content[1])
    ELSE WordLen(Head(content)) + 1 + ContentLen(Tail(content))

\* chunk.content[:100] + "..." when the content is longer than 100.
ContentPreview(content) ==
    IF ContentLen(content) > 100 THEN <<"[:100]">> \o content \o <<"...">>
    ELSE content

\* key in content_lower
KeyInContent(key, content) ==
    \E i \in 1..Len(content) : KeyInWord(key, Lower(content[i]))

\* The keyword rules of lines 628-635, in their order.
TopicRules ==
    << [topic |-> "RAG-jishu", keys |-> {"rag", "jiansuo"}],
       [topic |-> "zhishitupu", keys |-> {"zhishitupu", "tupu"}],
       [topic |-> "xiangliangjiansuo", keys |-> {"xiangliang", "qianru"}],
       [topic |-> "rengongzhineng", keys |-> {"ai", "rengongzhineng"}] >>

\* The same with elif in place of the second to fourth if: the first
\* matching rule only.
TopicsFirstMatch(content) ==
    LET matched == SelectSeq(TopicRules,
                     LAMBDA r : \E key \in r.keys : KeyInContent(key, content))
    IN  IF matched = <<>> THEN <<>> ELSE <<matched[1].topic>>

\* topics: the topics whose keyword occurs in the content.
Topics(content) ==
    LET matched == SelectSeq(TopicRules,
                     LAMBDA r : \E key \in r.keys : KeyInContent(key, content))
    IN  [i \in 1..Len(matched) |-> matched[i].topic]

\* document_id[:8]
Prefix8(document_id) ==
    CASE document_id = "doc-0000-1" -> "doc-0000"
      [] document_id = "doc-0000-2" -> "doc-0000"
      [] OTHER -> document_id

MetadataGet(metadata, key, default) ==
    IF key \in DOMAIN metadata THEN metadata[key] ELSE default

DocEntity(chunk) ==
    Node("Document", "doc_" \o chunk.document_id,
         [document_id |-> chunk.document_id,
          title |-> MetadataGet(chunk.metadata, "title",
                                "wendang" \o Prefix8(chunk.document_id)),
          created_at |-> MetadataGet(chunk.metadata, "created_at", "")])

ChunkEntity(chunk) ==
    Node("DocumentChunk",
         "chunk_" \o chunk.document_id \o "_" \o ToString(chunk.chunk_index),
         [document_id |-> chunk.document_id,
          chunk_index |-> chunk.chunk_index,
          content_preview |-> ContentPreview(chunk.content),
          content_length |-> ContentLen(chunk.content)])

DocChunkRelation(chunk) ==
    Edge(DocEntity(chunk).id, "CONTAINS_CHUNK", ChunkEntity(chunk).id,
         [chunk_order |-> chunk.chunk_index, weight |-> 100])

TopicEntity(topic) ==
    Node("Topic", "topic_" \o topic,
         [name |-> topic, category |-> "jishugainian"])

\* The same with the topic's name as to_entity in place of the node's id.
TopicRelationByName(chunk, topic) ==
    Edge(ChunkEntity(chunk).id, "RELATES_TO", topic,
         [confidence |-> 80, weight |-> 60])

TopicRelation(chunk, topic) ==
    Edge(ChunkEntity(chunk).id, "RELATES_TO", TopicEntity(topic).id,
         [confidence |-> 80, weight |-> 60])

(***************************************************************************)
(* State.                                                                  *)
(***************************************************************************)
VARIABLES
    vecIndex,       \* the vector index: its hits for the query, best first
    edges,          \* the graph store's relations, in store order
    nodes,          \* the graph store's nodes, in store order
    pc,             \* HybridRetriever.retrieve: "idle", "fanout", "returned"
    query,          \* retrieve's query: a sequence of words
    mode,           \* retrieve's mode
    top_k,          \* retrieve's top_k
    rerank,         \* retrieve's rerank
    filters,        \* the filters the caller passes, "none" when it passes none
    task,           \* per strategy: "none", "pending", "done", "hung"
    budget,         \* the top_k each launched strategy was called with
    completed,      \* the strategies that have returned, in that order
    taskResult,     \* per strategy: the list its retrieve returned
    health,         \* per strategy: "ok", "flaky", "down" during this call
    all_results,    \* retrieve's all_results
    unique_results, \* retrieve's unique_results before truncation
    rerankRan,      \* whether _rerank_results ran through its sort
    outcome,        \* what retrieve gave its caller
    test_args,      \* test_hybrid_retrieval: its query and top_k
    step,           \* test_hybrid_retrieval: number of modes done
    results_summary,\* test_hybrid_retrieval: len(results) per mode done
    arg,            \* a function called on its own: its arguments
    ret,            \* ... what it returned
    called,         \* ... whether it has been called
    graph_store,    \* GraphStore.store: "none", "no_driver" or "ready"
    bpc,            \* build_graph_from_chunks: "idle", "running", "returned"
    chunks,         \* ... its argument
    pos,            \* ... the chunk, the step and the topic it is at
    counts,         \* ... entities_added and relations_added
    exc,            \* ... the exception raised inside it, "" when none
    build_result,   \* ... what the call gave its caller
    builds,         \* the number of calls that have returned
    prev,           \* the previous call: argument, result, store after it
    calls,          \* the store calls the running build has made, in order
    cache,          \* RAGEngine._cache: entries of key, response, written_at
    enable_cache,   \* RAGEngineConfig.enable_cache
    qpc,            \* RAGEngine.query: "idle", "retrieving", "generating",
                    \* "returned", "raised"
    qcall,          \* ... its query, retrieval_mode and k
    qkey,           \* ... its cache_key
    qseen,          \* ... the ingestion steps completed when it retrieved
    qret,           \* ... what the call gave its caller
    queries,        \* the number of query calls made
    ipc,            \* add_document / delete_document: the await it is at
    icall,          \* ... which of the two, and build_graph
    epoch,          \* the number of ingestion steps that have completed
    ingests         \* the number of ingestion calls made

retrVars == <<pc, query, mode, top_k, rerank, filters, task, budget, completed,
              taskResult, health,
              all_results, unique_results, rerankRan, outcome>>
testVars == <<test_args, step, results_summary>>
storeVars == <<vecIndex, edges, nodes>>
pureVars == <<arg, ret, called>>
buildVars == <<graph_store, bpc, chunks, pos, counts, exc, build_result,
               builds, prev, calls>>
engineVars == <<cache, enable_cache, qpc, qcall, qkey, qseen, qret, queries,
                ipc, icall, epoch, ingests>>
vars == <<storeVars, retrVars, testVars, pureVars, buildVars, engineVars>>

Strategies == {"vector", "graph", "fulltext"}
StrategyOrder == <<"vector", "graph", "fulltext">>
Modes == {"vector", "graph", "fulltext", "hybrid", "bogus"}
TopKs == (-1)..MaxTopK
Queries == UNION {[1..n -> Words] : n \in 0..MaxQueryLen}
FilterChoices == {"none", "some"}

\* What the vector index may hold for the query.
VecIndexChoices == {
    <<>>,
    <<Hit("v1", 95, "d1"), Hit("v2", 87, "d2"), Hit("v4", 87, "d4"), Hit("v3", 82, "d3"),
      Hit("v6", 60, "d6")>>,
    <<Hit("v1", 95, "d1"), Hit("v5", 95, "d1"), Hit("v3", 82, "d3")>> }

\* What the graph store may hold.
EdgeChoices == {
    <<>>,
    <<Edge("general_ai", "USES", "rag_tech", [weight |-> 60]),
      Edge("rag_tech", "USES", "vector_search", [weight |-> 90]),
      Edge("rag_tech", "USES", "knowledge_graph", NoProps),
      Edge("general_ai", "RELATES_TO", "knowledge_graph", [weight |-> 70]),
      Edge("general_tech", "RELATES_TO", "rag_tech", NoProps)>> }

NoOutcome == [kind |-> "none", error |-> "", results |-> <<>>]
Returned(results) == [kind |-> "list", error |-> "", results |-> results]
Raised(error) == [kind |-> "raised", error |-> error, results |-> <<>>]

IdleRetr ==
    /\ pc = "idle"
    /\ query = <<>>
    /\ mode = "hybrid"
    /\ top_k = 10
    /\ rerank = TRUE
    /\ filters = "none"
    /\ task = [s \in Strategies |-> "none"]
    /\ budget = [s \in Strategies |-> 0]
    /\ completed = <<>>
    /\ taskResult = [s \in Strategies |-> <<>>]
    /\ health = [s \in Strategies |-> "ok"]
    /\ all_results = <<>>
    /\ unique_results = <<>>
    /\ rerankRan = FALSE
    /\ outcome = NoOutcome

IdleTest ==
    /\ test_args = [query |-> <<>>, top_k |-> 10]
    /\ step = 0
    /\ results_summary = <<>>

IdlePure ==
    /\ arg = <<>>
    /\ ret = <<>>
    /\ called = FALSE

StartPos == [ci |-> 1, stage |-> "doc", ti |-> 1]
NoCounts == [entities_added |-> 0, relations_added |-> 0]
NoResult == [kind |-> "none"]
NoPrev == [kind |-> "none"]

NoCall == [kind |-> "none"]

IdleEngine ==
    /\ cache = {}
    /\ enable_cache = TRUE
    /\ qpc = "idle"
    /\ qcall = NoCall
    /\ qkey = ""
    /\ qseen = 0
    /\ qret = NoOutcome
    /\ queries = 0
    /\ ipc = "idle"
    /\ icall = NoCall
    /\ epoch = 0
    /\ ingests = 0

IdleBuild ==
    /\ bpc = "idle"
    /\ chunks = <<>>
    /\ pos = StartPos
    /\ counts = NoCounts
    /\ exc = ""
    /\ build_result = NoResult
    /\ builds = 0
    /\ prev = NoPrev
    /\ calls = <<>>

Init ==
    /\ vecIndex \in VecIndexChoices
    /\ edges \in EdgeChoices
    /\ nodes = EndpointNodes(edges)
    /\ IdleRetr
    /\ IdleTest
    /\ IdlePure
    /\ graph_store = "ready"
    /\ IdleBuild
    /\ IdleEngine

(***************************************************************************)
(* HybridRetriever.retrieve.                                               *)
(***************************************************************************)
\* The budget a strategy is called with (retriever.py:266-282).
BudgetShared(m, k) == PyFloorDiv(k, 3) + 2

BudgetNoBuffer(m, k) == IF m = "hybrid" THEN PyFloorDiv(k, 3) ELSE k

Budget(m, k) == IF m = "hybrid" THEN PyFloorDiv(k, 3) + 2 ELSE k

Launched(m) ==
    IF m = "hybrid" THEN Strategies
    ELSE IF m \in Strategies THEN {m}
    ELSE {}

\* retrieve(query, mode, top_k, rerank) is called, by a caller that may pass
\* filters=...: the signature has no such parameter, so Python raises
\* TypeError before the body runs.  An unsupported mode raises ValueError
\* inside the try block, which the except branch turns into [].
Call(q, m, k, r, f) ==
    /\ pc = "idle"
    /\ query' = q /\ mode' = m /\ top_k' = k /\ rerank' = r /\ filters' = f
    /\ IF f /= "none"
       THEN /\ pc' = "returned"
            /\ outcome' = Raised("TypeError")
            /\ UNCHANGED <<task, budget>>
       ELSE IF Launched(m) = {}
       THEN /\ pc' = "returned"
            /\ outcome' = Returned(<<>>)
            /\ UNCHANGED <<task, budget>>
       ELSE /\ pc' = "fanout"
            /\ outcome' = outcome
            /\ task' = [s \in Strategies |->
                           IF s \in Launched(m) THEN "pending" ELSE "none"]
            /\ budget' = [s \in Strategies |->
                           IF s \in Launched(m) THEN Budget(m, k) ELSE 0]
    /\ UNCHANGED <<completed, taskResult, health, all_results, unique_results,
                   rerankRan>>
    /\ UNCHANGED <<engineVars, storeVars, testVars, pureVars, buildVars>>

Resolve(s, res, h) ==
    /\ task' = [task EXCEPT ![s] = "done"]
    /\ completed' = Append(completed, s)
    /\ taskResult' = [taskResult EXCEPT ![s] = res]
    /\ health' = [health EXCEPT ![s] = h]
    /\ UNCHANGED <<pc, query, mode, top_k, rerank, filters, budget, all_results,
                   unique_results, rerankRan, outcome>>
    /\ UNCHANGED <<engineVars, storeVars, testVars, pureVars, buildVars>>

\* self.vector_retriever.retrieve(query, budget)
VectorTask(ok) ==
    /\ pc = "fanout" /\ task["vector"] = "pending"
    /\ Resolve("vector", VectorRetrieve(vecIndex, budget["vector"], ok),
               IF ok THEN "ok" ELSE "down")

\* self.graph_retriever.retrieve(query, budget)
GraphTask(okOf) ==
    /\ pc = "fanout" /\ task["graph"] = "pending"
    /\ Resolve("graph", GraphRetrieve(edges, query, budget["graph"], okOf),
               IF \A i \in DOMAIN okOf : okOf[i] THEN "ok"
               ELSE IF \A i \in DOMAIN okOf : ~okOf[i] THEN "down"
               ELSE "flaky")

\* self.fulltext_retriever.retrieve(query, budget)
FulltextTask(ok) ==
    /\ pc = "fanout" /\ task["fulltext"] = "pending"
    /\ Resolve("fulltext", FulltextRetrieve(query, budget["fulltext"], ok),
               IF ok THEN "ok" ELSE "down")

\* for results in results_list: if isinstance(results, list):
\* all_results.extend(results), in the order the strategies were listed.
AllResultsFailFast(tk, res) ==
    IF \E s \in Strategies : tk[s] = "done" /\ health[s] = "down" THEN <<>>
    ELSE Concat([i \in 1..3 |->
            IF tk[StrategyOrder[i]] = "done" THEN res[StrategyOrder[i]] ELSE <<>>])

AllResultsAsCompleted(tk, res) ==
    Concat([i \in 1..Len(completed) |-> res[completed[i]]])

AllResults(tk, res) ==
    Concat([i \in 1..3 |->
        IF tk[StrategyOrder[i]] = "done" THEN res[StrategyOrder[i]] ELSE <<>>])

\* final_results = unique_results[:top_k]
TruncateOneMore(results, k) == PySlice(results, k + 1)

Truncate(results, k) == PySlice(results, k)

\* The rest of retrieve once every launched strategy has returned: extend
\* all_results in the order vector, graph, fulltext, deduplicate, rerank
\* when asked and more than one result is left, truncate, return.
Finish(providerOk) ==
    /\ pc = "fanout"
    /\ \A s \in Strategies : task[s] \notin {"pending", "hung"}
    /\ LET every == AllResults(task, taskResult)
           unique == DeduplicateResults(every)
           doRerank == rerank /\ Len(unique) > 1
           ranked == IF doRerank THEN RerankResults(query, unique, MockEmbedding(providerOk))
                     ELSE unique
       IN  /\ all_results' = every
           /\ unique_results' = ranked
           /\ rerankRan' = (doRerank /\ providerOk)
           /\ outcome' = Returned(Truncate(ranked, top_k))
    /\ pc' = "returned"
    /\ UNCHANGED <<query, mode, top_k, rerank, filters, task, budget, completed,
                   taskResult, health>>
    /\ UNCHANGED <<engineVars, storeVars, testVars, pureVars, buildVars>>

\* The caller is done with the outcome; the retriever is idle again.
ResetRetr ==
    /\ pc' = "idle"
    /\ query' = <<>> /\ mode' = "hybrid" /\ top_k' = 10 /\ rerank' = TRUE
    /\ filters' = "none"
    /\ task' = [s \in Strategies |-> "none"]
    /\ budget' = [s \in Strategies |-> 0]
    /\ completed' = <<>>
    /\ taskResult' = [s \in Strategies |-> <<>>]
    /\ health' = [s \in Strategies |-> "ok"]
    /\ all_results' = <<>> /\ unique_results' = <<>> /\ rerankRan' = FALSE
    /\ outcome' = NoOutcome

Reset ==
    /\ pc = "returned"
    /\ ResetRetr
    /\ UNCHANGED <<engineVars, storeVars, testVars, pureVars, buildVars>>

EntityOk == [1..Len(ExtractEntities(query)) -> BOOLEAN]

Next ==
    \/ /\ pc = "idle"
       /\ \E q \in Queries, m \in Modes, k \in TopKs, r \in BOOLEAN, f \in FilterChoices :
             Call(q, m, k, r, f)
    \/ \E ok \in BOOLEAN : VectorTask(ok)
    \/ \E okOf \in EntityOk : GraphTask(okOf)
    \/ \E ok \in BOOLEAN : FulltextTask(ok)
    \/ \E providerOk \in BOOLEAN : Finish(providerOk)
    \/ Reset

Spec == Init /\ [][Next]_vars

(***************************************************************************)
(* retrieve in hybrid mode when a backing store may never answer.  The     *)
(* vector and graph strategies await their store (and the embedding        *)
(* provider); retrieve takes no deadline and awaits asyncio.gather without *)
(* a timeout.  The event loop runs every task that can run.                *)
(***************************************************************************)
\* The store a strategy awaits never answers: its task never returns.
StrategyHangs(s) ==
    /\ pc = "fanout" /\ task[s] = "pending"
    /\ task' = [task EXCEPT ![s] = "hung"]
    /\ UNCHANGED <<pc, query, mode, top_k, rerank, filters, budget, completed,
                   taskResult, health, all_results, unique_results, rerankRan,
                   outcome>>
    /\ UNCHANGED <<engineVars, storeVars, testVars, pureVars, buildVars>>

LiveCall ==
    /\ pc = "idle"
    /\ \E q \in {<<w>> : w \in Words} : Call(q, "hybrid", MaxTopK, FALSE, "none")

LiveNext ==
    \/ LiveCall
    \/ \E ok \in BOOLEAN : VectorTask(ok)
    \/ \E okOf \in EntityOk : GraphTask(okOf)
    \/ \E ok \in BOOLEAN : FulltextTask(ok)
    \/ \E s \in {"vector", "graph"} : StrategyHangs(s)
    \/ Finish(TRUE)
    \/ Reset

\* The steps the event loop takes whenever it can.
LiveProgress ==
    \/ \E ok \in BOOLEAN : VectorTask(ok)
    \/ \E okOf \in EntityOk : GraphTask(okOf)
    \/ \E ok \in BOOLEAN : FulltextTask(ok)
    \/ Finish(TRUE)
    \/ Reset

LiveSpec == Init /\ [][LiveNext]_vars /\ WF_vars(LiveProgress)

(***************************************************************************)
(* test_hybrid_retrieval (src/test_retrieval_logic.py): the four modes are *)
(* run in turn on one query with one top_k, rerank=True, against healthy   *)
(* backends, and len(results) is recorded per mode.                        *)
(***************************************************************************)
TestModes == <<"vector", "graph", "fulltext", "hybrid">>

TestInit ==
    /\ vecIndex \in VecIndexChoices
    /\ edges \in EdgeChoices
    /\ nodes = EndpointNodes(edges)
    /\ IdleRetr
    /\ test_args \in [query : Queries \ {<<>>}, top_k : 1..MaxTopK]
    /\ step = 0
    /\ results_summary = <<>>
    /\ IdlePure
    /\ graph_store = "ready"
    /\ IdleBuild
    /\ IdleEngine

TestCall ==
    /\ step < Len(TestModes)
    /\ Call(test_args.query, TestModes[step + 1], test_args.top_k, TRUE, "none")

TestRecord ==
    /\ pc = "returned"
    /\ results_summary' = Append(results_summary, Len(outcome.results))
    /\ step' = step + 1
    /\ ResetRetr
    /\ UNCHANGED <<engineVars, storeVars, test_args, pureVars, buildVars>>

TestNext ==
    \/ TestCall
    \/ VectorTask(TRUE)
    \/ GraphTask([i \in 1..Len(ExtractEntities(query)) |-> TRUE])
    \/ FulltextTask(TRUE)
    \/ Finish(TRUE)
    \/ TestRecord

TestSpec == TestInit /\ [][TestNext]_vars

(***************************************************************************)
(* _deduplicate_results called on its own, on every short list of results  *)
(* over a pool that holds a repeated content and two colliding contents.   *)
(***************************************************************************)
DedupPool == {
    RetrievalResult(DocText("d1"), 95, "vector", "v1"),
    RetrievalResult(DocText("d1"), 90, "vector", "v5"),
    RetrievalResult(DocText("d2"), 87, "vector", "v2"),
    RetrievalResult(DocText("d5"), 70, "vector", "v7"),
    RetrievalResult(Text("kw", "rag", "", ""), 80, "fulltext", "") }

DedupInit ==
    /\ vecIndex = <<>> /\ edges = <<>> /\ nodes = <<>>
    /\ IdleRetr
    /\ IdleTest
    /\ arg \in UNION {[1..n -> DedupPool] : n \in 0..MaxDedupLen}
    /\ ret = <<>>
    /\ called = FALSE
    /\ graph_store = "ready"
    /\ IdleBuild
    /\ IdleEngine

DedupCall ==
    /\ ~called
    /\ ret' = DeduplicateResults(arg)
    /\ called' = TRUE
    /\ UNCHANGED <<engineVars, arg, storeVars, retrVars, testVars, buildVars>>

DedupNext == DedupCall

DedupSpec == DedupInit /\ [][DedupNext]_vars

(***************************************************************************)
(* embed_text of the two embedding providers, called on its own a few      *)
(* times in one process.  arg holds the calls made (provider, text and     *)
(* whether the embedding service answered), ret what each returned.        *)
(***************************************************************************)
EmbeddingProviders == {"openai", "mock"}
EmbedTexts == {DocText("d1"), DocText("d2"), DocText("d3")}

EmbedInit ==
    /\ vecIndex = <<>> /\ edges = <<>> /\ nodes = <<>>
    /\ IdleRetr
    /\ IdleTest
    /\ IdlePure
    /\ graph_store = "ready"
    /\ IdleBuild
    /\ IdleEngine

EmbedTextCall(provider, t, up, drawn) ==
    /\ Len(arg) < MaxEmbedCalls
    /\ arg' = Append(arg, [provider |-> provider, text |-> t, up |-> up])
    /\ ret' = Append(ret, IF provider = "mock" THEN EmbedText(t)
                          ELSE OpenAIEmbedText(t, up, drawn))
    /\ called' = TRUE
    /\ UNCHANGED <<engineVars, storeVars, retrVars, testVars, buildVars>>

EmbedNext ==
    \E provider \in EmbeddingProviders, t \in EmbedTexts, up \in BOOLEAN,
       drawn \in Range(VecTable) :
        EmbedTextCall(provider, t, up, drawn)

EmbedSpec == EmbedInit /\ [][EmbedNext]_vars

(***************************************************************************)
(* _cosine_similarity called on its own, on vectors of up to two           *)
(* components (zero, 1, -1, 3, 1.25, a value whose square underflows and   *)
(* one whose square overflows, of either sign) and on the two vectors of   *)
(* test_cosine_similarity.                                                 *)
(***************************************************************************)
Components == {0, One, -One, 3 * One, (5 * One) \div 4, One \div 64,
               32 * One, -32 * One}
Vectors == UNION {[1..n -> Components] : n \in 0..2}
              \cup {<<One, 0, 0>>, <<0, One, 0>>}

CosInit ==
    /\ vecIndex = <<>> /\ edges = <<>> /\ nodes = <<>>
    /\ IdleRetr
    /\ IdleTest
    /\ arg \in Vectors \X Vectors
    /\ ret = <<>>
    /\ called = FALSE
    /\ graph_store = "ready"
    /\ IdleBuild
    /\ IdleEngine

CosCall ==
    /\ ~called
    /\ ret' = CosineSimilarity(arg[1], arg[2])
    /\ called' = TRUE
    /\ UNCHANGED <<engineVars, arg, storeVars, retrVars, testVars, buildVars>>

CosNext == CosCall

CosSpec == CosInit /\ [][CosNext]_vars

(***************************************************************************)
(* _rerank_results called on its own, on every short list of results over  *)
(* a pool with the three sources, contents on both sides of the length     *)
(* thresholds and words in both cases, with either embedding provider.     *)
(* arg is the call (query, results, embedding side), ret the returned list.*)
(***************************************************************************)
RerankPool == {
    RetrievalResult(DocText("d1"), 80, "vector", "v1"),
    RetrievalResult(DocText("d3"), 80, "vector", "v3"),
    RetrievalResult(DocText("d2"), 50, "vector", "v2"),
    RetrievalResult(Text("rel", "RAG-jishu", "vector_search", "USES"), 90,
                    "graph", ""),
    RetrievalResult(Text("kw", "rag", "", ""), 80, "fulltext", "") }

RerankQueries == {<<"RAG">>, <<"rag", "RAG">>, <<"foo", "rag">>, <<"kg">>}

\* The outcomes of one embed_text call of the OpenAI provider: the service
\* answers, or it does not and the provider draws a vector.
EmbedCalls ==
    {ServiceAnswered} \cup {[up |-> FALSE, drawn |-> d] : d \in {<<1, 0>>, <<3, 4>>}}

\* The embedding sides of a rerank of n results: get_embedding_provider()
\* raises, or returns the mock provider, or returns the OpenAI provider.
RerankEmbeddings(n) ==
    {MockEmbedding(FALSE), MockEmbedding(TRUE)} \cup
    {[ok |-> TRUE, provider |-> "openai", query |-> c, contents |-> cs] :
        c \in EmbedCalls, cs \in [1..n -> EmbedCalls]}

RerankInit ==
    /\ vecIndex = <<>> /\ edges = <<>> /\ nodes = <<>>
    /\ IdleRetr
    /\ IdleTest
    /\ \E n \in 0..MaxRerankLen :
          arg \in [query : RerankQueries,
                   results : [1..n -> RerankPool],
                   emb : RerankEmbeddings(n)]
    /\ ret = <<>>
    /\ called = FALSE
    /\ graph_store = "ready"
    /\ IdleBuild
    /\ IdleEngine

RerankCall ==
    /\ ~called
    /\ ret' = RerankResults(arg.query, arg.results, arg.emb)
    /\ called' = TRUE
    /\ UNCHANGED <<engineVars, arg, storeVars, retrVars, testVars, buildVars>>

RerankNext == RerankCall

RerankSpec == RerankInit /\ [][RerankNext]_vars

(***************************************************************************)
(* The two keyword tables applied to one text: the topic detection of      *)
(* build_graph_from_chunks, as the content of a chunk, and                 *)
(* _extract_entities, as a query.  arg is the text, a sequence of words;   *)
(* ret holds the Topic nodes the builder makes and the entities the        *)
(* retriever looks up.                                                     *)
(***************************************************************************)
VocabWords == {"RAG", "storage", "said", "AI", "jiansuo", "zhishitupu",
               "tupu", "xiangliang", "xiangliangjiansuo", "qianru",
               "rengongzhineng", "jiqixuexi", "foo"}

VocabInit ==
    /\ vecIndex = <<>> /\ edges = <<>> /\ nodes = <<>>
    /\ IdleRetr
    /\ IdleTest
    /\ arg \in UNION {[1..n -> VocabWords] : n \in 0..MaxTextLen}
    /\ ret = <<>>
    /\ called = FALSE
    /\ graph_store = "ready"
    /\ IdleBuild
    /\ IdleEngine

VocabCall ==
    /\ ~called
    /\ ret' = [topics |-> [i \in 1..Len(Topics(arg)) |->
                              TopicEntity(Topics(arg)[i])],
               entities |-> ExtractEntities(arg)]
    /\ called' = TRUE
    /\ UNCHANGED <<engineVars, arg, storeVars, retrVars, testVars, buildVars>>

VocabNext == VocabCall

VocabSpec == VocabInit /\ [][VocabNext]_vars

(***************************************************************************)
(* RAGEngine: query, add_document and delete_document, one step per await. *)
(* One query call and one ingestion call may be in flight together; the    *)
(* event loop switches between them at their awaits only.  The engine's    *)
(* collaborators (document processor, stores, retriever, generator) are    *)
(* its environment: each awaited call returns or raises.  With the classes *)
(* of this repository some of these calls can only raise (retrieve is      *)
(* called with filters=, which HybridRetriever.retrieve does not take; the *)
(* stores have no delete_document); the engine's code is the same for any  *)
(* collaborator that offers the methods it calls.                          *)
(***************************************************************************)
DefaultRetrievalMode == "hybrid"
DefaultTopK == 10

EngineQueries == {"rag", "foo"}
\* mode and top_k as the caller passes them; "" and 0 stand for None.
EngineModes == {"", "vector"}
EngineTopKs == {0, 3}

\* _generate_cache_key without filters: the md5 digest of the joined
\* parts, taken to be free of collisions.
GenerateCacheKey(q, m, k) == q \o "|" \o m \o "|" \o ToString(k)

CacheKeys(c) == {e.key : e \in c}
CacheGet(c, key) == (CHOOSE e \in c : e.key = key).response

\* self._cache[cache_key] = query_response
CacheSet(c, key, response, at) ==
    {e \in c : e.key /= key}
        \cup {[key |-> key, response |-> response, written_at |-> at]}

\* The same as CacheAfterGenerate with the cache written whether or not
\* generate_response returned.
CacheAfterGenerateEager(ok, c, enabled, key, response, at) ==
    IF enabled THEN CacheSet(c, key, response, at) ELSE c

\* The cache after the await of generate_response: written when the
\* response was built and caching is enabled.
CacheAfterGenerate(ok, c, enabled, key, response, at) ==
    IF ok /\ enabled THEN CacheSet(c, key, response, at) ELSE c

QueryResponse(call, seen) ==
    [query |-> call.query, retrieval_mode |-> call.mode, seen |-> seen]

QueryFrame == UNCHANGED <<storeVars, retrVars, testVars, pureVars, buildVars,
                          enable_cache, ipc, icall, epoch, ingests>>
IngestFrame == UNCHANGED <<storeVars, retrVars, testVars, pureVars, buildVars,
                           enable_cache, qpc, qcall, qkey, qseen, qret, queries,
                           ingests>>

\* query, up to the cache hit or to the await of retriever.retrieve.
QueryCall(q, m, k) ==
    /\ qpc = "idle"
    /\ queries < MaxQueries
    /\ LET retrieval_mode == IF m = "" THEN DefaultRetrievalMode ELSE m
           kk == IF k = 0 THEN DefaultTopK ELSE k
           cache_key == GenerateCacheKey(q, retrieval_mode, kk)
       IN  /\ qcall' = [kind |-> "query", query |-> q, mode |-> retrieval_mode,
                        top_k |-> kk]
           /\ qkey' = cache_key
           /\ IF enable_cache /\ cache_key \in CacheKeys(cache)
              THEN /\ qpc' = "returned"
                   /\ qret' = [kind |-> "response",
                               response |-> CacheGet(cache, cache_key)]
              ELSE /\ qpc' = "retrieving"
                   /\ qret' = NoOutcome
    /\ queries' = queries + 1
    /\ UNCHANGED <<cache, qseen>>
    /\ QueryFrame

\* retriever.retrieve returns or raises; then _rerank_results and
\* _build_context run, up to the await of generator.generate_response.
QueryRetrieved(ok, contextOk) ==
    /\ qpc = "retrieving"
    /\ IF ok /\ contextOk
       THEN /\ qpc' = "generating"
            /\ qseen' = epoch
            /\ qret' = qret
       ELSE /\ qpc' = "raised"
            /\ qseen' = qseen
            /\ qret' = [kind |-> "raised"]
    /\ UNCHANGED <<cache, qcall, qkey, queries>>
    /\ QueryFrame

\* generate_response returns or raises; then the response is built, cached
\* and returned.
QueryGenerated(ok) ==
    /\ qpc = "generating"
    /\ LET query_response == QueryResponse(qcall, qseen)
       IN  /\ cache' = CacheAfterGenerate(ok, cache, enable_cache, qkey,
                                          query_response, epoch)
           /\ IF ok
              THEN /\ qpc' = "returned"
                   /\ qret' = [kind |-> "response", response |-> query_response]
              ELSE /\ qpc' = "raised"
                   /\ qret' = [kind |-> "raised"]
    /\ UNCHANGED <<qcall, qkey, qseen, queries>>
    /\ QueryFrame

\* The caller has the response or the exception.
QueryDone ==
    /\ qpc \in {"returned", "raised"}
    /\ qpc' = "idle"
    /\ qcall' = NoCall
    /\ qkey' = ""
    /\ qseen' = 0
    /\ qret' = NoOutcome
    /\ UNCHANGED <<cache, queries>>
    /\ QueryFrame

\* add_document, up to the await of process_document.
AddDocumentCall(build_graph) ==
    /\ ipc = "idle"
    /\ ingests < MaxIngests
    /\ ipc' = "process_document"
    /\ icall' = [kind |-> "add_document", build_graph |-> build_graph]
    /\ ingests' = ingests + 1
    /\ UNCHANGED <<cache, epoch>>
    /\ UNCHANGED <<storeVars, retrVars, testVars, pureVars, buildVars,
                   enable_cache, qpc, qcall, qkey, qseen, qret, queries>>

\* delete_document, up to the await of vector_store.delete_document.
DeleteDocumentCall ==
    /\ ipc = "idle"
    /\ ingests < MaxIngests
    /\ ipc' = "delete_vectors"
    /\ icall' = [kind |-> "delete_document", build_graph |-> FALSE]
    /\ ingests' = ingests + 1
    /\ UNCHANGED <<cache, epoch>>
    /\ UNCHANGED <<storeVars, retrVars, testVars, pureVars, buildVars,
                   enable_cache, qpc, qcall, qkey, qseen, qret, queries>>

\* An awaited step of the ingestion returns (the call goes on to await
\* next) or raises (the except clause re-raises).  completes says whether
\* the step has changed a store when it returns.
IngestStep(at, ok, completes, next) ==
    /\ ipc = at
    /\ ipc' = IF ok THEN next ELSE "raised"
    /\ epoch' = IF ok /\ completes THEN epoch + 1 ELSE epoch
    /\ UNCHANGED <<cache, icall>>
    /\ IngestFrame

AddProcessed(ok) == IngestStep("process_document", ok, FALSE, "add_chunks")

AddChunksDone(ok) ==
    IngestStep("add_chunks", ok, TRUE,
               IF icall.build_graph THEN "build_graph" ELSE "update_index")

\* build_graph_from_chunks returns its success result, returns its failure
\* result, or raises (the store check ahead of its try block).
AddGraphBuilt(result) ==
    IngestStep("build_graph", result /= "raised", result = "success",
               "update_index")

DeleteVectorsDone(ok) == IngestStep("delete_vectors", ok, TRUE, "delete_graph")

DeleteGraphDone(ok) == IngestStep("delete_graph", ok, TRUE, "update_index")

\* retriever.update_index returns; then _clear_cache, and the result.
IndexUpdated ==
    /\ ipc = "update_index"
    /\ cache' = {}
    /\ ipc' = "returned"
    /\ UNCHANGED <<icall, epoch>>
    /\ IngestFrame

\* The caller has the result or the exception.
IngestDone ==
    /\ ipc \in {"returned", "raised"}
    /\ ipc' = "idle"
    /\ icall' = NoCall
    /\ UNCHANGED <<cache, epoch>>
    /\ IngestFrame

EngineInit ==
    /\ vecIndex = <<>> /\ edges = <<>> /\ nodes = <<>>
    /\ IdleRetr
    /\ IdleTest
    /\ IdlePure
    /\ graph_store = "ready"
    /\ IdleBuild
    /\ IdleEngine

EngineNext ==
    \/ \E q \in EngineQueries, m \in EngineModes, k \in EngineTopKs :
          QueryCall(q, m, k)
    \/ \E ok \in BOOLEAN, contextOk \in BOOLEAN : QueryRetrieved(ok, contextOk)
    \/ \E ok \in BOOLEAN : QueryGenerated(ok)
    \/ QueryDone
    \/ \E build_graph \in BOOLEAN : AddDocumentCall(build_graph)
    \/ DeleteDocumentCall
    \/ \E ok \in BOOLEAN : AddProcessed(ok)
    \/ \E ok \in BOOLEAN : AddChunksDone(ok)
    \/ \E result \in {"success", "failure", "raised"} : AddGraphBuilt(result)
    \/ \E ok \in BOOLEAN : DeleteVectorsDone(ok)
    \/ \E ok \in BOOLEAN : DeleteGraphDone(ok)
    \/ IndexUpdated
    \/ IngestDone

EngineSpec == EngineInit /\ [][EngineNext]_vars

(***************************************************************************)
(* GraphStore.build_graph_from_chunks, one merge at a time.                *)
(***************************************************************************)
ChunkListChoices == {
    <<>>,
    <<Chunk("A", 0, <<"RAG", "storage">>, [title |-> "t1"]),
      Chunk("A", 1, <<"said", "zhishitupu">>, NoProps)>>,
    <<Chunk("B", 0, <<"AI", "foo">>, [title |-> "t2", created_at |-> "2024"])>>,
    <<Chunk("doc-0000-1", 0, <<"lorem">>, NoProps)>> }

GraphStoreChoices == {"none", "no_driver", "ready"}

BuildSuccess(n, c) ==
    [kind |-> "dict", success |-> TRUE, error |-> "",
     chunks_processed |-> n,
     graph_entities |-> c.entities_added,
     graph_relations |-> c.relations_added]

BuildFailure(n, e) ==
    [kind |-> "dict", success |-> FALSE, error |-> e,
     chunks_processed |-> n, graph_entities |-> 0, graph_relations |-> 0]

BuildRaised(e) == [kind |-> "raised", error |-> e]

\* if not self.store: raise RuntimeError, ahead of the try block.
BuildCheckStore(cs) ==
    /\ bpc' = "returned"
    /\ exc' = "RuntimeError"
    /\ build_result' = BuildRaised("RuntimeError")
    /\ UNCHANGED <<pos, counts>>

\* The call, up to its first await.
BuildCall(cs) ==
    /\ bpc = "idle"
    /\ builds < MaxBuilds
    /\ chunks' = cs
    /\ IF graph_store = "none" THEN BuildCheckStore(cs)
       ELSE IF cs = <<>>
       THEN /\ bpc' = "returned"
            /\ exc' = ""
            /\ build_result' = BuildSuccess(0, NoCounts)
            /\ UNCHANGED <<pos, counts>>
       ELSE /\ bpc' = "running"
            /\ pos' = StartPos
            /\ counts' = NoCounts
            /\ exc' = ""
            /\ build_result' = NoResult
    /\ calls' = <<>>
    /\ UNCHANGED <<engineVars, storeVars, retrVars, testVars, pureVars, graph_store,
                   builds, prev>>

\* The same reporting the counts reached when the exception was raised.
BuildCatchWithCounts(e) ==
    /\ bpc' = "returned"
    /\ exc' = e
    /\ build_result' = [BuildFailure(Len(chunks), e) EXCEPT
                            !.graph_entities = counts.entities_added,
                            !.graph_relations = counts.relations_added]
    /\ UNCHANGED <<pos, counts>>

\* except Exception: the failure result, counts zero.
BuildCatch(e) ==
    /\ bpc' = "returned"
    /\ exc' = e
    /\ build_result' = BuildFailure(Len(chunks), e)
    /\ UNCHANGED <<pos, counts>>

\* The loop moves on with counts c: to position p, or out of the loop and
\* to the return when p is past the last chunk.
BuildAdvance(p, c) ==
    /\ counts' = c
    /\ exc' = ""
    /\ IF p.ci > Len(chunks)
       THEN /\ bpc' = "returned"
            /\ build_result' = BuildSuccess(Len(chunks), c)
            /\ pos' = pos
       ELSE /\ bpc' = "running"
            /\ build_result' = build_result
            /\ pos' = p

\* The loop's position after the merge at position p of the chunk list cs.
NextPos(cs, p) ==
    LET topics == Topics(cs[p.ci].content)
        nextChunk == [ci |-> p.ci + 1, stage |-> "doc", ti |-> 1]
    IN  CASE p.stage = "doc" -> [p EXCEPT !.stage = "chunk"]
          [] p.stage = "chunk" -> [p EXCEPT !.stage = "contains"]
          [] p.stage = "contains" ->
                IF topics = <<>> THEN nextChunk
                ELSE [p EXCEPT !.stage = "topic_node", !.ti = 1]
          [] p.stage = "topic_node" -> [p EXCEPT !.stage = "topic_rel"]
          [] OTHER ->
                IF p.ti >= Len(topics) THEN nextChunk
                ELSE [p EXCEPT !.stage = "topic_node", !.ti = @ + 1]

\* The entity add_entity is awaited with at position p.
PosEntity(cs, p) ==
    CASE p.stage = "doc" -> DocEntity(cs[p.ci])
      [] p.stage = "chunk" -> ChunkEntity(cs[p.ci])
      [] OTHER -> TopicEntity(Topics(cs[p.ci].content)[p.ti])

\* The relation add_relation is awaited with at position p.
PosRelation(cs, p) ==
    IF p.stage = "contains" THEN DocChunkRelation(cs[p.ci])
    ELSE TopicRelation(cs[p.ci], Topics(cs[p.ci].content)[p.ti])

\* entities_added and relations_added after the merge at position p.
NextCounts(p, c) ==
    CASE p.stage = "chunk" -> [c EXCEPT !.entities_added = @ + 2]
      [] p.stage = "contains" -> [c EXCEPT !.relations_added = @ + 1]
      [] p.stage = "topic_rel" -> [entities_added |-> c.entities_added + 1,
                                   relations_added |-> c.relations_added + 1]
      [] OTHER -> c

\* A call made to the store and whether it returned.
StoreCall(op, type, from, to, ok) ==
    [op |-> op, type |-> type, from_entity |-> from, to_entity |-> to,
     ok |-> ok]

\* await self.add_entity(...), for the document, the chunk or a topic.
BuildAddEntity(ok) ==
    /\ bpc = "running"
    /\ pos.stage \in {"doc", "chunk", "topic_node"}
    /\ LET entity == PosEntity(chunks, pos)
           returns == graph_store /= "no_driver" /\ ok
       IN  /\ calls' = Append(calls, StoreCall("add_entity", entity.type,
                                               entity.id, "", returns))
           /\ IF graph_store = "no_driver"
              THEN BuildCatch("RuntimeError") /\ nodes' = nodes
              ELSE IF ~ok
              THEN BuildCatch("StoreError") /\ nodes' = nodes
              ELSE /\ nodes' = MergeEntity(nodes, entity)
                   /\ BuildAdvance(NextPos(chunks, pos),
                                   NextCounts(pos, counts))
    /\ UNCHANGED <<engineVars, vecIndex, edges, retrVars, testVars, pureVars, graph_store,
                   chunks, builds, prev>>

\* await self.add_relation(...), for CONTAINS_CHUNK or a RELATES_TO.
BuildAddRelation(ok) ==
    /\ bpc = "running"
    /\ pos.stage \in {"contains", "topic_rel"}
    /\ LET relation == PosRelation(chunks, pos)
           returns == graph_store /= "no_driver" /\ ok
       IN  /\ calls' = Append(calls, StoreCall("add_relation", relation.type,
                                               relation.from_entity,
                                               relation.to_entity, returns))
           /\ IF graph_store = "no_driver"
              THEN BuildCatch("RuntimeError") /\ edges' = edges
              ELSE IF ~ok
              THEN BuildCatch("StoreError") /\ edges' = edges
              ELSE /\ edges' = MergeRelation(nodes, edges, relation)
                   /\ BuildAdvance(NextPos(chunks, pos),
                                   NextCounts(pos, counts))
    /\ UNCHANGED <<engineVars, vecIndex, nodes, retrVars, testVars, pureVars, graph_store,
                   chunks, builds, prev>>

\* The caller has the result (or the exception); the builder is idle again.
BuildReturn ==
    /\ bpc = "returned"
    /\ bpc' = "idle"
    /\ builds' = builds + 1
    /\ prev' = [kind |-> "call", chunks |-> chunks, result |-> build_result,
                nodes |-> nodes, edges |-> edges]
    /\ calls' = <<>>
    /\ pos' = StartPos
    /\ counts' = NoCounts
    /\ exc' = ""
    /\ build_result' = NoResult
    /\ UNCHANGED <<engineVars, storeVars, retrVars, testVars, pureVars, graph_store, chunks>>

GraphInit ==
    /\ vecIndex = <<>>
    /\ edges \in EdgeChoices
    /\ nodes = EndpointNodes(edges)
    /\ IdleRetr
    /\ IdleTest
    /\ IdlePure
    /\ graph_store \in GraphStoreChoices
    /\ IdleBuild
    /\ IdleEngine

GraphNext ==
    \/ \E cs \in ChunkListChoices : BuildCall(cs)
    \/ \E ok \in BOOLEAN : BuildAddEntity(ok)
    \/ \E ok \in BOOLEAN : BuildAddRelation(ok)
    \/ BuildReturn

GraphSpec == GraphInit /\ [][GraphNext]_vars

(***************************************************************************)
(* Two build_graph_from_chunks runs for two different documents, started   *)
(* together by a batch driver on an empty graph.  Each run is suspended at *)
(* every await of a store call, so the event loop may switch between the   *)
(* runs at every merge; a merge itself is one step of the store.  The      *)
(* build variables hold one value per run.                                 *)
(***************************************************************************)
ConcRuns == {1, 2}

ConcChunkLists == {
    << <<Chunk("A", 0, <<"RAG", "storage">>, [title |-> "t1"]),
         Chunk("A", 1, <<"said", "zhishitupu">>, NoProps)>>,
       <<Chunk("B", 0, <<"AI", "foo">>, [title |-> "t2", created_at |-> "2024"])>> >>,
    << <<Chunk("B", 0, <<"AI", "foo">>, NoProps)>>,
       <<Chunk("C", 0, <<"RAG", "tupu">>, NoProps),
         Chunk("C", 1, <<"foo">>, NoProps)>> >> }

ConcInit ==
    /\ vecIndex = <<>> /\ edges = <<>> /\ nodes = <<>>
    /\ IdleRetr
    /\ IdleTest
    /\ IdlePure
    /\ IdleEngine
    /\ graph_store = "ready"
    /\ chunks \in ConcChunkLists
    /\ bpc = [b \in ConcRuns |-> "running"]
    /\ pos = [b \in ConcRuns |-> StartPos]
    /\ counts = [b \in ConcRuns |-> NoCounts]
    /\ exc = [b \in ConcRuns |-> ""]
    /\ build_result = [b \in ConcRuns |-> NoResult]
    /\ calls = [b \in ConcRuns |-> <<>>]
    /\ builds = 0
    /\ prev = NoPrev

\* Run b resumes after its store call: the except branch when the call
\* raised, else the next statement of the loop or the return.
ConcResume(b, ok) ==
    LET p == NextPos(chunks[b], pos[b])
        c == NextCounts(pos[b], counts[b])
    IN  IF ~ok
        THEN /\ bpc' = [bpc EXCEPT ![b] = "returned"]
             /\ exc' = [exc EXCEPT ![b] = "StoreError"]
             /\ build_result' = [build_result EXCEPT
                    ![b] = BuildFailure(Len(chunks[b]), "StoreError")]
             /\ UNCHANGED <<pos, counts>>
        ELSE /\ counts' = [counts EXCEPT ![b] = c]
             /\ exc' = exc
             /\ IF p.ci > Len(chunks[b])
                THEN /\ bpc' = [bpc EXCEPT ![b] = "returned"]
                     /\ build_result' = [build_result EXCEPT
                            ![b] = BuildSuccess(Len(chunks[b]), c)]
                     /\ pos' = pos
                ELSE /\ pos' = [pos EXCEPT ![b] = p]
                     /\ UNCHANGED <<bpc, build_result>>

\* await self.add_entity(...) of run b.
ConcAddEntity(b, ok) ==
    /\ bpc[b] = "running"
    /\ pos[b].stage \in {"doc", "chunk", "topic_node"}
    /\ LET entity == PosEntity(chunks[b], pos[b])
       IN  /\ calls' = [calls EXCEPT ![b] =
                  Append(@, StoreCall("add_entity", entity.type, entity.id,
                                      "", ok))]
           /\ nodes' = IF ok THEN MergeEntity(nodes, entity) ELSE nodes
    /\ ConcResume(b, ok)
    /\ UNCHANGED <<engineVars, vecIndex, edges, retrVars, testVars, pureVars,
                   graph_store, chunks, builds, prev>>

\* await self.add_relation(...) of run b.
ConcAddRelation(b, ok) ==
    /\ bpc[b] = "running"
    /\ pos[b].stage \in {"contains", "topic_rel"}
    /\ LET relation == PosRelation(chunks[b], pos[b])
       IN  /\ calls' = [calls EXCEPT ![b] =
                  Append(@, StoreCall("add_relation", relation.type,
                                      relation.from_entity,
                                      relation.to_entity, ok))]
           /\ edges' = IF ok THEN MergeRelation(nodes, edges, relation)
                       ELSE edges
    /\ ConcResume(b, ok)
    /\ UNCHANGED <<engineVars, vecIndex, nodes, retrVars, testVars, pureVars,
                   graph_store, chunks, builds, prev>>

ConcNext ==
    \/ \E b \in ConcRuns, ok \in BOOLEAN : ConcAddEntity(b, ok)
    \/ \E b \in ConcRuns, ok \in BOOLEAN : ConcAddRelation(b, ok)

ConcSpec == ConcInit /\ [][ConcNext]_vars

(***************************************************************************)
(* Properties of HybridRetriever.retrieve.                                 *)
(***************************************************************************)
SupportedModes == {"vector", "graph", "fulltext", "hybrid"}

\* A call whose arguments Python bound to the signature has returned.
Answered == pc = "returned" /\ filters = "none"

\* The call's query and top_k are what the contract asks for.
WellFormed == query /= <<>> /\ top_k >= 1

\* The results at the positions of s whose content hash occurs at no
\* earlier position.
FirstOccurrences(s) ==
    LET first(i) == \A j \in 1..(i - 1) :
                       PyHash(s[j].content) /= PyHash(s[i].content)
        RECURSIVE from(_)
        from(i) == IF i > Len(s) THEN <<>>
                   ELSE (IF first(i) THEN <<s[i]>> ELSE <<>>) \o from(i + 1)
    IN  from(1)

Contents(s) == [i \in 1..Len(s) |-> s[i].content]

\* C1: a call with a mode outside {vector, graph, fulltext, hybrid} fails
\* with an unsupported-mode error that reaches the caller, and never
\* returns a list.
C1_UnsupportedModeRaises ==
    (Answered /\ WellFormed /\ mode \notin SupportedModes)
        => (outcome.kind = "raised" /\ outcome.error = "ValueError")

C8_MisuseRejected ==
    (Answered /\ mode \in SupportedModes /\ (query = <<>> \/ top_k < 1))
        => (outcome.kind = "raised" /\ \A s \in Strategies : task[s] = "none")

\* C9: for a supported mode and top_k >= 1 the returned list has length
\* min(top_k, number of distinct candidates) and is a prefix of the
\* deduplicated candidate list, reranked when the reranker ran.
C9_TruncatedPrefix ==
    (Answered /\ mode \in SupportedModes /\ top_k >= 1) =>
        LET fused == FirstOccurrences(all_results)
            distinct == {PyHash(all_results[i].content) : i \in 1..Len(all_results)}
            n == Min(top_k, Cardinality(distinct))
        IN  /\ outcome.kind = "list"
            /\ Len(outcome.results) = n
            /\ outcome.results = SubSeq(unique_results, 1, n)
            /\ Range(Contents(unique_results)) = Range(Contents(fused))
            /\ Len(unique_results) = Len(fused)
            /\ ~rerankRan => unique_results = fused
            /\ rerankRan => \A i \in 1..(Len(unique_results) - 1) :
                               unique_results[i].score >= unique_results[i + 1].score

\* A call that dropped candidates: duplicates removed and the list cut.
C9_Witness ==
    /\ Answered /\ mode = "hybrid" /\ top_k >= 1 /\ rerankRan
    /\ Len(FirstOccurrences(all_results)) < Len(all_results)
    /\ Len(outcome.results) = top_k
    /\ Len(outcome.results) < Len(unique_results)

\* C10: a call that passes filters is not rejected: it returns a list.
C10_FiltersAccepted ==
    (pc = "returned" /\ WellFormed /\ mode \in SupportedModes /\ filters /= "none")
        => outcome.kind = "list"

(***************************************************************************)
(* Properties of _deduplicate_results.                                     *)
(***************************************************************************)
\* s is t with some items left out, the rest in order.
RECURSIVE IsSubsequence(_, _)
IsSubsequence(s, t) ==
    IF s = <<>> THEN TRUE
    ELSE IF t = <<>> THEN FALSE
    ELSE IF Head(s) = Head(t) THEN IsSubsequence(Tail(s), Tail(t))
    ELSE IsSubsequence(s, Tail(t))

\* The items of s whose position satisfies keep, in order.
RECURSIVE SelectAt(_, _, _)
SelectAt(s, keep(_), i) ==
    IF i > Len(s) THEN <<>>
    ELSE (IF keep(i) THEN <<s[i]>> ELSE <<>>) \o SelectAt(s, keep, i + 1)

NoTwoSameContent(s) ==
    \A i, j \in 1..Len(s) : i /= j => s[i].content /= s[j].content

\* C3 as claimed: the output is a subsequence of the input without two
\* equal contents, no longer than the input, that keeps exactly the first
\* occurrence of each distinct content.
C3_KeepsFirstOfEachContent ==
    called =>
        LET firstOfContent(i) == \A j \in 1..(i - 1) : arg[j].content /= arg[i].content
        IN  /\ IsSubsequence(ret, arg)
            /\ NoTwoSameContent(ret)
            /\ Len(ret) <= Len(arg)
            /\ ret = SelectAt(arg, firstOfContent, 1)

\* C3 amended: ... that keeps exactly the first occurrence of each distinct
\* content hash.
C3_KeepsFirstOfEachHash ==
    called =>
        LET firstOfHash(i) == \A j \in 1..(i - 1) :
                                 PyHash(arg[j].content) /= PyHash(arg[i].content)
        IN  /\ IsSubsequence(ret, arg)
            /\ NoTwoSameContent(ret)
            /\ Len(ret) <= Len(arg)
            /\ ret = SelectAt(arg, firstOfHash, 1)

\* A list with a repeated content and a colliding content, deduplicated.
C3_Witness ==
    /\ called
    /\ Len(arg) = 3
    /\ arg[1].content = arg[2].content /\ arg[1] /= arg[2]
    /\ arg[3].content /= arg[1].content
    /\ PyHash(arg[3].content) = PyHash(arg[1].content)
    /\ ret = <<arg[1]>>

\* C5: with healthy backends, hybrid mode returns at least as many results
\* as each single mode for the same query and top_k.
C5_HybridAtLeastSingle ==
    step = Len(TestModes) =>
        \A i \in 1..3 : results_summary[4] >= results_summary[i]

(***************************************************************************)
(* Properties of build_graph_from_chunks.                                  *)
(***************************************************************************)
NoDuplicateNodes ==
    \A i, j \in 1..Len(nodes) : i /= j => nodes[i].id /= nodes[j].id

NoDuplicateEdges ==
    \A i, j \in 1..Len(edges) :
        i /= j => ~ (/\ edges[i].from_entity = edges[j].from_entity
                     /\ edges[i].type = edges[j].type
                     /\ edges[i].to_entity = edges[j].to_entity)

\* The call that has just returned follows a successful call with the same
\* chunk list, and succeeded too.
SecondOfTwo ==
    /\ bpc = "returned"
    /\ prev.kind = "call"
    /\ prev.chunks = chunks
    /\ prev.result.kind = "dict" /\ prev.result.success
    /\ build_result.kind = "dict" /\ build_result.success

\* C6: after the second of two successive build_graph_from_chunks calls
\* with the same chunk list, the store holds the same nodes and edges as
\* after the first, and no node id and no (from, type, to) edge twice.
C6_BuildTwiceIdempotent ==
    SecondOfTwo =>
        /\ Range(nodes) = Range(prev.nodes)
        /\ Range(edges) = Range(prev.edges)
        /\ Len(nodes) = Len(prev.nodes)
        /\ Len(edges) = Len(prev.edges)
        /\ NoDuplicateNodes
        /\ NoDuplicateEdges

\* A two-chunk document with topics, built twice with success.
C6_Witness ==
    /\ SecondOfTwo
    /\ Len(chunks) = 2
    /\ build_result.graph_entities = 7
    /\ build_result.graph_relations = 5
    /\ Len(edges) >= 5

\* C7: whatever error occurs during build_graph_from_chunks (a failing
\* node merge, a failing edge merge, the store being unavailable), the
\* call does not raise: it returns success=false, the error message and
\* counts of zero.
C7_BuildNeverRaises ==
    (bpc = "returned" /\ exc /= "") =>
        /\ build_result.kind = "dict"
        /\ build_result.success = FALSE
        /\ build_result.error = exc
        /\ build_result.graph_entities = 0
        /\ build_result.graph_relations = 0

(***************************************************************************)
(* Properties of the strategy calls of HybridRetriever.retrieve.           *)
(***************************************************************************)
InCall == pc \in {"fanout", "returned"} /\ filters = "none"

\* C11: in mode vector, graph or fulltext only the strategy of that mode is
\* invoked, with top_k as its budget; the other two are never called, and
\* every returned result has the mode as its source.
C11_SingleModeOnlyItsStrategy ==
    (InCall /\ mode \in Strategies) =>
        /\ task[mode] /= "none"
        /\ budget[mode] = top_k
        /\ \A s \in Strategies \ {mode} :
              /\ task[s] = "none"
              /\ s \notin Range(completed)
              /\ taskResult[s] = <<>>
        /\ pc = "returned" =>
              /\ outcome.kind = "list"
              /\ \A i \in 1..Len(outcome.results) : outcome.results[i].source = mode

\* Vector mode with a budget no hybrid call of that top_k would get.
C11_Witness ==
    /\ pc = "returned" /\ filters = "none"
    /\ mode = "vector"
    /\ top_k = 5
    /\ completed = <<"vector">>
    /\ Len(outcome.results) = 5

\* What each strategy returns on its own for this call's arguments when
\* its backing store answers.
FullResult(s) ==
    CASE s = "vector" -> VectorRetrieve(vecIndex, PyFloorDiv(top_k, 3) + 2, TRUE)
      [] s = "graph" ->
            GraphRetrieve(edges, query, PyFloorDiv(top_k, 3) + 2,
                          [i \in 1..Len(ExtractEntities(query)) |-> TRUE])
      [] OTHER -> FulltextRetrieve(query, PyFloorDiv(top_k, 3) + 2, TRUE)

\* C19: in hybrid mode all three strategies are launched, each with budget
\* floor(top_k/3)+2, and retrieve goes on only when each has returned; a
\* strategy that fails leaves the other two to complete, and their full
\* results are all passed to fusion.
C19_HybridFanOut ==
    (InCall /\ mode = "hybrid") =>
        /\ \A s \in Strategies :
              /\ task[s] \in {"pending", "done"}
              /\ budget[s] = PyFloorDiv(top_k, 3) + 2
              /\ (task[s] = "done" /\ health[s] = "ok") => taskResult[s] = FullResult(s)
              /\ (task[s] = "done" /\ health[s] = "down") => taskResult[s] = <<>>
        /\ pc = "returned" =>
              /\ \A s \in Strategies : task[s] = "done"
              /\ \A s \in Strategies :
                    \A i \in 1..Len(taskResult[s]) :
                        taskResult[s][i] \in Range(all_results)
              /\ Len(all_results) = Len(taskResult["vector"])
                    + Len(taskResult["graph"]) + Len(taskResult["fulltext"])

\* The vector strategy failed first; the other two then completed and
\* their results reached fusion.
C19_Witness ==
    /\ pc = "returned" /\ filters = "none" /\ mode = "hybrid"
    /\ completed[1] = "vector"
    /\ health = [vector |-> "down", graph |-> "ok", fulltext |-> "ok"]
    /\ taskResult["graph"] /= <<>>
    /\ taskResult["fulltext"] /= <<>>
    /\ Len(all_results) = Len(taskResult["graph"]) + Len(taskResult["fulltext"])

\* C20: in hybrid mode the candidate list is assembled only once all three
\* strategies have returned, and is always the vector results, then the
\* graph results, then the fulltext results, whatever the order in which
\* they returned.
C20_AssembledInListedOrder ==
    (InCall /\ mode = "hybrid") =>
        /\ pc = "fanout" => (all_results = <<>> /\ outcome = NoOutcome)
        /\ pc = "returned" =>
              /\ Len(completed) = 3
              /\ all_results = taskResult["vector"] \o taskResult["graph"]
                                  \o taskResult["fulltext"]
              /\ outcome.kind = "list"

\* The strategies returned in the reverse of their listed order, each
\* with results.
C20_Witness ==
    /\ pc = "returned" /\ filters = "none" /\ mode = "hybrid"
    /\ completed = <<"fulltext", "graph", "vector">>
    /\ \A s \in Strategies : taskResult[s] /= <<>>
    /\ all_results[1].source = "vector"
    /\ all_results[Len(all_results)].source = "fulltext"

\* C17: a call with rerank=true that returns results has the reranker
\* applied to each of them (original score and the four factors in its
\* metadata); with rerank=false no returned result has its score changed.
C17_RerankAppliedToAll ==
    (Answered /\ WellFormed /\ mode \in SupportedModes) =>
        /\ rerank =>
              \A i \in 1..Len(outcome.results) :
                  /\ outcome.results[i].reranked
                  /\ outcome.results[i].rerank_factors /= NoFactors
        /\ ~rerank =>
              \A i \in 1..Len(outcome.results) :
                  /\ ~outcome.results[i].reranked
                  /\ outcome.results[i] \in Range(all_results)

\* C12: in hybrid mode, even if one strategy never completes, retrieve
\* eventually returns (with the results of the other two).
C12_ReturnsDespiteHungStrategy ==
    (pc = "fanout" /\ mode = "hybrid") ~> (pc = "returned")

(***************************************************************************)
(* Properties of the graph GraphStore.build_graph_from_chunks builds.       *)
(***************************************************************************)
BuildSucceeded ==
    /\ bpc = "returned"
    /\ build_result.kind = "dict"
    /\ build_result.success

\* The nodes of the store with this label and id.
NodesAt(type, id) ==
    {j \in 1..Len(nodes) : nodes[j].type = type /\ nodes[j].id = id}

\* The edges of the store of this type between these two node ids.
EdgesAt(from, type, to) ==
    {j \in 1..Len(edges) : /\ edges[j].from_entity = from
                           /\ edges[j].type = type
                           /\ edges[j].to_entity = to}

\* The topics one of whose keywords occurs in the content.
TopicsOf(content) ==
    {TopicRules[r].topic : r \in
        {r \in 1..Len(TopicRules) :
            \E key \in TopicRules[r].keys : KeyInContent(key, content)}}

\* C18: after a successful build_graph_from_chunks the store holds, for
\* every chunk given, one Document node for its document_id, one
\* DocumentChunk node for its (document_id, chunk_index), a CONTAINS_CHUNK
\* edge between them whose chunk_order is the chunk_index and, for every
\* topic one of whose keywords occurs in the content, a Topic node and a
\* RELATES_TO edge from the chunk node to it.
C18_GraphOfChunks ==
    BuildSucceeded =>
        \A i \in 1..Len(chunks) :
            LET c == chunks[i]
                docId == "doc_" \o c.document_id
                chunkId == "chunk_" \o c.document_id \o "_"
                              \o ToString(c.chunk_index)
            IN  /\ Cardinality(NodesAt("Document", docId)) = 1
                /\ \A j \in NodesAt("Document", docId) :
                      nodes[j].properties.document_id = c.document_id
                /\ Cardinality(NodesAt("DocumentChunk", chunkId)) = 1
                /\ \A j \in NodesAt("DocumentChunk", chunkId) :
                      /\ nodes[j].properties.document_id = c.document_id
                      /\ nodes[j].properties.chunk_index = c.chunk_index
                /\ Cardinality(EdgesAt(docId, "CONTAINS_CHUNK", chunkId)) = 1
                /\ \A j \in EdgesAt(docId, "CONTAINS_CHUNK", chunkId) :
                      edges[j].properties.chunk_order = c.chunk_index
                /\ \A t \in TopicsOf(c.content) :
                      /\ Cardinality(NodesAt("Topic", "topic_" \o t)) = 1
                      /\ EdgesAt(chunkId, "RELATES_TO", "topic_" \o t) /= {}

\* A successful build of a two-chunk document whose second chunk has two
\* topics, one of them by a keyword inside a longer word.
C18_Witness ==
    /\ BuildSucceeded
    /\ Len(chunks) = 2
    /\ chunks[2].chunk_index = 1
    /\ TopicsOf(chunks[2].content) = {"zhishitupu", "rengongzhineng"}
    /\ EdgesAt("chunk_A_1", "RELATES_TO", "topic_rengongzhineng") /= {}

(***************************************************************************)
(* Properties of embed_text.                                               *)
(***************************************************************************)
\* C15: embed_text is deterministic: two calls of the same provider with
\* the same text return the same vector, also when the embedding service
\* is unavailable (the vector then depends on the text only).
C15_EmbedTextDeterministic ==
    \A i, j \in 1..Len(arg) :
        (arg[i].provider = arg[j].provider /\ arg[i].text = arg[j].text)
            => ret[i] = ret[j]

(***************************************************************************)
(* Properties of _cosine_similarity.                                       *)
(***************************************************************************)
ZeroVector(v) == \A i \in 1..Len(v) : v[i] = 0

RECURSIVE ExactDotFrom(_, _, _)
ExactDotFrom(v1, v2, i) ==
    IF i > Len(v1) THEN 0 ELSE v1[i] * v2[i] + ExactDotFrom(v1, v2, i + 1)

\* Orthogonal as vectors of real numbers.
Orthogonal(v1, v2) == Len(v1) = Len(v2) /\ ExactDotFrom(v1, v2, 1) = 0

\* No component is so small or so large that its square leaves the range
\* of the normal finite values.
MidRange(v) ==
    \A i \in 1..Len(v) : v[i] = 0 \/ (One \div 4 <= Abs(v[i]) /\ Abs(v[i]) <= 4 * One)

WithinUnit(x) == x.kind = "fin" /\ -One <= x.n /\ x.n <= One

\* k units in the last place of the values just below 1.0, each 2^-53
\* for float64.
Ulps(k) == k * 2^(UnitExp - FloatBits)

\* C16 as stated: _cosine_similarity returns 0.0 when either argument is a
\* zero vector, exactly 1.0 for two identical non-zero vectors, exactly 0.0
\* for two orthogonal vectors, and always a value within [-1, 1].
C16_CosineExact ==
    called =>
        /\ (ZeroVector(arg[1]) \/ ZeroVector(arg[2])) => ret = Fin(0)
        /\ (arg[1] = arg[2] /\ ~ZeroVector(arg[1])) => ret = Fin(One)
        /\ Orthogonal(arg[1], arg[2]) => ret = Fin(0)
        /\ WithinUnit(ret)

\* C16, amended: _cosine_similarity returns 0.0 when either argument is a
\* zero vector; for two identical non-zero vectors whose squares neither
\* overflow nor underflow a value within four units in the last place
\* below 1.0, and not above 1.0; for two such orthogonal vectors of n
\* components a value within 2n of those units of 0.0; and for all inputs
\* a number within [-1, 1].
C16_CosineRounded ==
    called =>
        /\ (ZeroVector(arg[1]) \/ ZeroVector(arg[2])) => ret = Fin(0)
        /\ (arg[1] = arg[2] /\ ~ZeroVector(arg[1]) /\ MidRange(arg[1])) =>
              (ret.kind = "fin" /\ One - Ulps(4) <= ret.n /\ ret.n <= One)
        /\ (Orthogonal(arg[1], arg[2]) /\ MidRange(arg[1]) /\ MidRange(arg[2])) =>
              (ret.kind = "fin" /\ Abs(ret.n) <= Ulps(2 * Len(arg[1])))
        /\ WithinUnit(ret)

\* Two identical non-zero vectors for which rounding leaves the result
\* just below 1.0.
C16_Witness ==
    /\ called
    /\ arg[1] = arg[2]
    /\ arg[1] = <<One, One>>
    /\ ret.kind = "fin" /\ ret.n < One /\ ret.n >= One - Ulps(4)

(***************************************************************************)
(* Properties of the query cache of RAGEngine.                             *)
(***************************************************************************)
\* C14: a step of query changes the cache only when it is the step in
\* which generate_response returned, after retrieval and context building
\* succeeded, and then by writing the entry of its key; a step in which
\* the query fails leaves the cache as it was.
C14_CacheWrittenOnlyOnSuccess ==
    [][ (qpc' /= qpc) =>
          \/ cache' = cache
          \/ /\ qpc = "generating"
             /\ qpc' = "returned"
             /\ qret'.kind = "response"
             /\ cache' = CacheSet(cache, qkey, qret'.response, epoch) ]_vars

\* A query has failed at generation while the cache holds the entry of an
\* earlier query, and no entry for the failed query's key.
C14_Witness ==
    /\ qpc = "raised"
    /\ qseen = epoch
    /\ queries = 2
    /\ cache /= {}
    /\ qkey \notin CacheKeys(cache)

C21_WrittenAfterClear ==
    /\ qpc = "returned"
    /\ ipc = "idle" /\ ingests = 1
    /\ qseen < epoch
    /\ \E e \in cache : e.key = qkey /\ e.response.seen < epoch


(***************************************************************************)
(* C22, C23: the reranker.                                                 *)
(***************************************************************************)
\* The result of the call's list that a returned result was made from.
MadeFrom(r, x) ==
    /\ r.content = x.content /\ r.source = x.source /\ r.hit = x.hit
    /\ r.original_score = x.score

\* The number of distinct lower-cased query tokens that are tokens of the
\* lower-cased content.
SharedTokens(q, content) ==
    Cardinality({w \in {Lower(t) : t \in Range(q)} : w \in TextWords(content)})

EmbeddingFailedFor(i) ==
    /\ TextLen(arg.results[i].content) > 20
    /\ \/ ~arg.emb.ok
       \/ /\ arg.emb.provider = "openai"
          /\ ~arg.emb.query.up \/ ~arg.emb.contents[i].up

\* C23: the rerank completes whatever the embedding side does: every
\* result is scored, with semantic bonus 1.0 when its content has at most
\* 20 characters or when the embedding of the query or of its content
\* failed, and the list is returned sorted by score, best first.
C23_SemanticBonusNeutralOnFailure ==
    called =>
        /\ Len(ret) = Len(arg.results)
        /\ \A j \in 1..Len(ret) :
              /\ ret[j].reranked
              /\ ret[j].score =
                    ret[j].original_score
                    * ret[j].rerank_factors.source_weight
                    * ret[j].rerank_factors.length_bonus
                    * ret[j].rerank_factors.keyword_bonus
                    * ret[j].rerank_factors.semantic_bonus
              /\ TextLen(ret[j].content) <= 20 =>
                    ret[j].rerank_factors.semantic_bonus = 50
        /\ \A j \in 1..(Len(ret) - 1) : ret[j].score >= ret[j + 1].score
        /\ \A i \in 1..Len(arg.results) :
              EmbeddingFailedFor(i) =>
                  \E j \in 1..Len(ret) :
                      /\ MadeFrom(ret[j], arg.results[i])
                      /\ ret[j].rerank_factors.semantic_bonus = 50


(***************************************************************************)
(* C24, C25: the vector and graph retrievers.                              *)
(***************************************************************************)
\* C24: a vector or graph retrieve whose backing store failed at any point
\* (for the graph retriever, on the fetch for any one of the extracted
\* entities) has returned the empty list.
C24_EmptyOnStoreError ==
    /\ (task["vector"] = "done" /\ health["vector"] = "down") =>
           taskResult["vector"] = <<>>
    /\ (task["graph"] = "done" /\ health["graph"] \in {"down", "flaky"}) =>
           taskResult["graph"] = <<>>


\* The connections a graph result may describe: <<i, j>> for the i-th
\* extracted entity and the j-th stored relation, which leaves that entity.
Connections ==
    {p \in (1..Len(ExtractEntities(query))) \X (1..Len(edges)) :
        edges[p[2]].from_entity = ExtractEntities(query)[p[1]].id}

\* The result says that connection: its sentence names the entity, the
\* related entity and the relation type, its score is the relation's weight
\* (0.5 when it has none).
Describes(r, p) ==
    LET entity == ExtractEntities(query)[p[1]]
        relation == edges[p[2]]
    IN  /\ r.content = Text("rel", entity.name, relation.to_entity, relation.type)
        /\ r.score = (IF "weight" \in DOMAIN relation.properties
                      THEN relation.properties.weight ELSE 50)

\* C25: for top_k >= 1, GraphRetriever.retrieve returns at most top_k
\* results, each with source graph and describing a stored relation that
\* leaves an extracted entity, scored by its weight; results are in the
\* order of the extracted entities and, per entity, in the store's order.
C25_GraphResultsAreDirectConnections ==
    (task["graph"] = "done" /\ budget["graph"] >= 1) =>
        LET res == taskResult["graph"]
        IN  /\ Len(res) <= budget["graph"]
            /\ \A n \in 1..Len(res) :
                  /\ res[n].source = "graph"
                  /\ \E p \in Connections : Describes(res[n], p)
            /\ \A n \in 1..(Len(res) - 1) :
                  \E p, r \in Connections :
                      /\ Describes(res[n], p) /\ Describes(res[n + 1], r)
                      /\ p[1] < r[1] \/ (p[1] = r[1] /\ p[2] < r[2])

\* A retrieve with top_k 3 for a query without keyword: two connections of
\* the first default entity, then one of the second whose relation has no
\* weight.
C25_Witness ==
    /\ task["graph"] = "done" /\ budget["graph"] = 3
    /\ Len(taskResult["graph"]) = 3
    /\ taskResult["graph"][1].score = 60
    /\ taskResult["graph"][2].score = 70
    /\ taskResult["graph"][3].score = 50
    /\ taskResult["graph"][3].content.a = "tech"


(***************************************************************************)
(* C26..C30: the graph builder.                                            *)
(***************************************************************************)
\* C26: on every text the builder's topic detection and the retriever's
\* entity extraction match the same concepts, and the id of the Topic node
\* the builder makes for a concept is the id of the entity the retriever
\* looks up for it.
C26_SameVocabulary ==
    called =>
        LET built == {ret.topics[i].properties.name : i \in 1..Len(ret.topics)}
            matched == IF ret.entities = DefaultEntities THEN {}
                       ELSE {ret.entities[j].name : j \in 1..Len(ret.entities)}
        IN  /\ built = matched
            /\ \A i \in 1..Len(ret.topics), j \in 1..Len(ret.entities) :
                  ret.topics[i].properties.name = ret.entities[j].name =>
                      ret.topics[i].id = ret.entities[j].id


\* C27: a successful build into an empty graph (the first build, after
\* which the graph holds nothing but the builder's nodes) returns as entity
\* count the number of nodes the graph then holds and as relation count its
\* number of edges.
C27_CountsAreNodesAndEdges ==
    (/\ bpc = "returned" /\ builds = 0
     /\ build_result.kind = "dict" /\ build_result.success
     /\ \A j \in 1..Len(nodes) :
           nodes[j].type \in {"Document", "DocumentChunk", "Topic"}) =>
        /\ build_result.graph_entities = Len(nodes)
        /\ build_result.graph_relations = Len(edges)


\* The number of chunks whose DocumentChunk node the run has asked for
\* among its first k store calls.
ChunksBegun(k) ==
    Cardinality({i \in 1..k : /\ calls[i].op = "add_entity"
                              /\ calls[i].type = "DocumentChunk"})

\* The run's add_entity call for this id has returned among its first k - 1
\* store calls.
MergedBefore(id, k) ==
    \E i \in 1..(k - 1) : /\ calls[i].op = "add_entity"
                          /\ calls[i].ok
                          /\ calls[i].from_entity = id

\* C28: in every run the chunks are taken one at a time in list order (the
\* n-th DocumentChunk node asked for is that of the n-th chunk, and every
\* relation asked for belongs to the chunk then in hand), and add_relation
\* is called only after the run's add_entity calls for both of its
\* endpoints have returned.
C28_EdgeAfterItsNodes ==
    \A k \in 1..Len(calls) :
        LET n == ChunksBegun(k)
        IN  /\ (calls[k].op = "add_entity" /\ calls[k].type = "DocumentChunk") =>
                  /\ n <= Len(chunks)
                  /\ calls[k].from_entity = ChunkEntity(chunks[n]).id
            /\ calls[k].op = "add_relation" =>
                  /\ n \in 1..Len(chunks)
                  /\ ChunkEntity(chunks[n]).id \in
                        {calls[k].from_entity, calls[k].to_entity}
                  /\ MergedBefore(calls[k].from_entity, k)
                  /\ MergedBefore(calls[k].to_entity, k)

\* A finished run over the two chunks of document A: twelve store calls,
\* five of them add_relation.
C28_Witness ==
    /\ BuildSucceeded
    /\ Len(chunks) = 2
    /\ Len(calls) = 12
    /\ Cardinality({k \in 1..12 : calls[k].op = "add_relation"}) = 5


\* A store: its nodes and its relations.
Store(nodeSeq, edgeSeq) == [nodes |-> nodeSeq, edges |-> edgeSeq]

\* The store after one whole run over the chunk list cs from position p on,
\* no call failing and nothing else touching the store meanwhile.
RECURSIVE RunFrom(_, _, _)
RunFrom(store, cs, p) ==
    IF p.ci > Len(cs) THEN store
    ELSE RunFrom(
             IF p.stage \in {"doc", "chunk", "topic_node"}
             THEN Store(MergeEntity(store.nodes, PosEntity(cs, p)), store.edges)
             ELSE Store(store.nodes,
                        MergeRelation(store.nodes, store.edges, PosRelation(cs, p))),
             cs, NextPos(cs, p))

\* The two builds one after the other, run a first.
Sequential(a, b) ==
    RunFrom(RunFrom(Store(<<>>, <<>>), chunks[a], StartPos), chunks[b], StartPos)

BothSucceeded ==
    \A b \in ConcRuns :
        /\ bpc[b] = "returned"
        /\ build_result[b].kind = "dict"
        /\ build_result[b].success

\* C29: when two runs for different documents have both succeeded, however
\* their merges were interleaved, the store holds the nodes and edges it
\* holds after the two builds run one after the other (in either order),
\* each once; a Topic matched by chunks of both documents is one node.
C29_InterleavedAsSequential ==
    BothSucceeded =>
        /\ \A o \in {<<1, 2>>, <<2, 1>>} :
              LET seq == Sequential(o[1], o[2])
              IN  /\ Range(nodes) = Range(seq.nodes)
                  /\ Range(edges) = Range(seq.edges)
                  /\ Len(nodes) = Len(seq.nodes)
                  /\ Len(edges) = Len(seq.edges)
        /\ \A i, j \in 1..Len(nodes) :
              (nodes[i].type = nodes[j].type /\ nodes[i].id = nodes[j].id) => i = j
        /\ \A i, j \in 1..Len(edges) :
              (/\ edges[i].from_entity = edges[j].from_entity
               /\ edges[i].type = edges[j].type
               /\ edges[i].to_entity = edges[j].to_entity) => i = j

\* Documents A and B have both been built, the Topic rengongzhineng that
\* chunks of both match was merged first by B's run, and A's run had begun
\* before: the store's order is not that of either sequential order.
C29_Witness ==
    /\ BothSucceeded
    /\ chunks[2][1].document_id = "B"
    /\ \E i, j, k \in 1..Len(nodes) :
          /\ i < j /\ j < k
          /\ nodes[i].id = "doc_A"
          /\ nodes[j].id = "topic_rengongzhineng"
          /\ nodes[k].id = "chunk_A_1"
    /\ Cardinality({e \in Range(edges) : e.to_entity = "topic_rengongzhineng"}) = 2


\* The run ended in the except branch, on a store call that raised.
BuildFailedInLoop ==
    /\ bpc = "returned" /\ exc /= ""
    /\ calls /= <<>>

\* C30: when a store call raises while the k-th chunk is processed, the
\* call that raised is the run's last store call (no later step and no
\* later chunk is processed), everything the run merged before is still in
\* the store, and the result reports success=false with counts of zero.
C30_PartialBuildRemains ==
    BuildFailedInLoop =>
        /\ ~calls[Len(calls)].ok
        /\ ChunksBegun(Len(calls)) <= pos.ci
        /\ \A k \in 1..(Len(calls) - 1) :
              /\ calls[k].ok
              /\ calls[k].op = "add_entity" =>
                    NodesAt(calls[k].type, calls[k].from_entity) /= {}
              /\ calls[k].op = "add_relation" =>
                    EdgesAt(calls[k].from_entity, calls[k].type,
                            calls[k].to_entity) /= {}
        /\ build_result.kind = "dict"
        /\ build_result.success = FALSE
        /\ build_result.graph_entities = 0
        /\ build_result.graph_relations = 0

\* The store fails on the last relation of the second chunk of document A:
\* eleven merges were made and counted, the result reports none.
C30_Witness ==
    /\ BuildFailedInLoop
    /\ pos.ci = 2 /\ pos.stage = "topic_rel"
    /\ Len(calls) = 12
    /\ counts.entities_added = 6
    /\ NodesAt("Topic", "topic_rengongzhineng") /= {}
    /\ build_result.graph_entities = 0

=============================================================================
